---------------------------- MODULE Spec2Model ----------------------------
(***************************************************************************)
(* State-machine model of the IPSSI_PATCH backend: the Express middleware  *)
(* stack (server entry files), the router's per-route middleware chains    *)
(* (rate limiters, validators, controllers), the comment and user services *)
(* and the Sequelize-backed store.                                          *)
(*                                                                         *)
(* Texts are sequences of one-character strings.  The third-party          *)
(* libraries the code calls (xss, express-rate-limit, express-validator,   *)
(* cors, body-parser, sequelize) are modelled by what the called function  *)
(* does with the options the repository passes, at the call site.          *)
(***************************************************************************)
EXTENDS Integers, Sequences, FiniteSets, TLC

(***************************************************************************)
(* Text helpers (JavaScript String primitives used by the code).           *)
(***************************************************************************)
WhiteSpace == {" ", "\t", "\n", "\r"}

\* html.slice(from, to) with 0-based, end-exclusive offsets, 0 <= from.
Slice(s, from, to) ==
    IF to <= from THEN <<>> ELSE SubSeq(s, from + 1, IF to > Len(s) THEN Len(s) ELSE to)

RECURSIVE TrimLeft(_)
TrimLeft(s) ==
    IF s = <<>> THEN <<>>
    ELSE IF Head(s) \in WhiteSpace THEN TrimLeft(Tail(s)) ELSE s

RECURSIVE TrimRight(_)
TrimRight(s) ==
    IF s = <<>> THEN <<>>
    ELSE IF s[Len(s)] \in WhiteSpace THEN TrimRight(SubSeq(s, 1, Len(s) - 1)) ELSE s

\* String.prototype.trim
trim(s) == TrimRight(TrimLeft(s))

UpperLetters ==
    <<"A","B","C","D","E","F","G","H","I","J","K","L","M",
      "N","O","P","Q","R","S","T","U","V","W","X","Y","Z">>
LowerLetters ==
    <<"a","b","c","d","e","f","g","h","i","j","k","l","m",
      "n","o","p","q","r","s","t","u","v","w","x","y","z">>

LowerChar(c) ==
    IF \E i \in 1..26 : UpperLetters[i] = c
    THEN LowerLetters[CHOOSE i \in 1..26 : UpperLetters[i] = c]
    ELSE c

\* String.prototype.toLowerCase
toLowerCase(s) == [i \in 1..Len(s) |-> LowerChar(s[i])]

\* html.indexOf(pat, from): 0-based offset of the first occurrence at or
\* after offset from, -1 when there is none.
IndexOf(s, pat, from) ==
    LET hits == {i \in from..(Len(s) - Len(pat)) :
                    SubSeq(s, i + 1, i + Len(pat)) = pat}
    IN  IF hits = {} THEN -1 ELSE CHOOSE i \in hits : \A j \in hits : i <= j

(***************************************************************************)
(* The xss package as called by commentService.createComment:              *)
(*   xss(content, { whiteList: {}, stripIgnoreTag: true,                   *)
(*                  stripIgnoreTagBody: ['script', 'style'] })             *)
(***************************************************************************)
LT == <<"&", "l", "t", ";">>
GT == <<"&", "g", "t", ";">>
RemovedOpen == <<"[", "r", "e", "m", "o", "v", "e", "d", "]">>
RemovedClose == <<"[", "/", "r", "e", "m", "o", "v", "e", "d", "]">>
ScriptTag == <<"s", "c", "r", "i", "p", "t">>
StyleTag == <<"s", "t", "y", "l", "e">>

\* stripIgnoreTagBody: ['script', 'style']
stripIgnoreTagBody == {ScriptTag, StyleTag}

\* an escapeHtml that also rewrites "&", as an entity encoder would
RECURSIVE escapeHtmlAmpersand(_)
escapeHtmlAmpersand(s) ==
    IF s = <<>> THEN <<>>
    ELSE IF Len(s) = 1
    THEN (IF Head(s) = "<" THEN LT
          ELSE IF Head(s) = ">" THEN GT
          ELSE IF Head(s) = "&" THEN <<"&", "a", "m", "p", ";">>
          ELSE s)
    ELSE escapeHtmlAmpersand(SubSeq(s, 1, Len(s) \div 2))
         \o escapeHtmlAmpersand(SubSeq(s, Len(s) \div 2 + 1, Len(s)))

\* default escapeHtml: "<" and ">" of text outside tags become entities
RECURSIVE escapeHtml(_)
escapeHtml(s) ==
    IF s = <<>> THEN <<>>
    ELSE IF Len(s) = 1
    THEN (IF Head(s) = "<" THEN LT ELSE IF Head(s) = ">" THEN GT ELSE s)
    ELSE escapeHtml(SubSeq(s, 1, Len(s) \div 2))
         \o escapeHtml(SubSeq(s, Len(s) \div 2 + 1, Len(s)))

\* allowCommentTag is off: <!-- ... --> is cut out before tags are parsed;
\* an unterminated comment cuts the rest of the text.
RECURSIVE stripCommentTag(_, _)
stripCommentTag(html, lastPos) ==
    IF lastPos >= Len(html) THEN <<>>
    ELSE LET i == IndexOf(html, <<"<", "!", "-", "-">>, lastPos) IN
         IF i = -1 THEN Slice(html, lastPos, Len(html))
         ELSE LET j == IndexOf(html, <<"-", "-", ">">>, i) IN
              Slice(html, lastPos, i)
              \o (IF j = -1 THEN <<>> ELSE stripCommentTag(html, j + 3))

\* 0-based offset of the first whitespace of a tag's text, -1 when none
spaceIndex(s) ==
    LET hits == {i \in 1..Len(s) : s[i] \in WhiteSpace}
    IN  IF hits = {} THEN -1 ELSE (CHOOSE i \in hits : \A j \in hits : i <= j) - 1

getTagName(tagHtml) ==
    LET i == spaceIndex(tagHtml)
        raw == IF i = -1 THEN Slice(tagHtml, 1, Len(tagHtml) - 1)
               ELSE Slice(tagHtml, 1, i + 1)
        low == toLowerCase(trim(raw))
        a == IF low # <<>> /\ Head(low) = "/" THEN Tail(low) ELSE low
    IN  IF a # <<>> /\ a[Len(a)] = "/" THEN SubSeq(a, 1, Len(a) - 1) ELSE a

isClosing(tagHtml) == Len(tagHtml) >= 2 /\ tagHtml[1] = "<" /\ tagHtml[2] = "/"

\* The quote look-back of parseTag: walking left from the quote at 1-based
\* index pos over whitespace, is the first other character an "="?
RECURSIVE quoteAfterEquals(_, _)
quoteAfterEquals(html, pos) ==
    IF pos < 1 THEN FALSE
    ELSE IF html[pos] = "=" THEN TRUE
    ELSE IF html[pos] \in WhiteSpace THEN quoteAfterEquals(html, pos - 1)
    ELSE FALSE

\* onIgnoreTag for a tag that is not on the (empty) whitelist.  st carries
\* the output so far and StripTagBody's removeList / posStart (-1: false).
\* Returns st with the tag's replacement appended.
onIgnoreTag(st, tagHtml) ==
    LET tag == getTagName(tagHtml)
        position == Len(st.rethtml)
    IN  IF tag \in stripIgnoreTagBody
        THEN IF isClosing(tagHtml)
             THEN [st EXCEPT
                     !.rethtml = @ \o RemovedClose,
                     !.removeList = Append(@,
                        <<IF st.posStart # -1 THEN st.posStart ELSE position,
                          position + Len(RemovedClose)>>),
                     !.posStart = -1]
             ELSE [st EXCEPT
                     !.rethtml = @ \o RemovedOpen,
                     \* if (!posStart): false and offset 0 both count as unset
                     !.posStart = IF st.posStart = -1 \/ st.posStart = 0
                                  THEN position ELSE @]
        ELSE st   \* stripIgnoreTag: onIgnoreTagStripAll returns ""

\* parseTag's character loop; currentPos is 1-based, tagStart 0 means false,
\* lastPos is a 0-based offset, quoteStart "" means false.
RECURSIVE parseTag(_, _, _)
parseTag(html, currentPos, st) ==
    IF currentPos > Len(html)
    THEN IF st.lastPos < Len(html)
         THEN [st EXCEPT !.rethtml = @ \o escapeHtml(Slice(html, st.lastPos, Len(html)))]
         ELSE st
    ELSE LET c == html[currentPos] IN
         IF st.tagStart = 0
         THEN \* outside a tag nothing happens up to the next "<"
              LET open == IndexOf(html, <<"<">>, currentPos - 1) IN
              IF open = -1 THEN parseTag(html, Len(html) + 1, st)
              ELSE parseTag(html, open + 2, [st EXCEPT !.tagStart = open + 1])
         ELSE IF st.quoteStart = ""
         THEN IF c = "<"
              THEN parseTag(html, currentPos + 1,
                     [st EXCEPT
                        !.rethtml = @ \o escapeHtml(Slice(html, st.lastPos, currentPos - 1)),
                        !.tagStart = currentPos,
                        !.lastPos = currentPos - 1])
              ELSE IF c = ">" \/ currentPos = Len(html)
              THEN LET before == [st EXCEPT
                          !.rethtml = @ \o escapeHtml(Slice(html, st.lastPos, st.tagStart - 1))]
                       tagHtml == SubSeq(html, st.tagStart, currentPos)
                   IN  parseTag(html, currentPos + 1,
                          [onIgnoreTag(before, tagHtml) EXCEPT
                              !.lastPos = currentPos, !.tagStart = 0])
              ELSE IF c \in {"\"", "'"} /\ quoteAfterEquals(html, currentPos - 1)
              THEN parseTag(html, currentPos + 1, [st EXCEPT !.quoteStart = c])
              ELSE parseTag(html, currentPos + 1, st)
         ELSE parseTag(html, currentPos + 1,
                       IF c = st.quoteStart THEN [st EXCEPT !.quoteStart = ""] ELSE st)

\* StripTagBody.remove: cut every recorded [start, end) out of the output
RECURSIVE removeBodies(_, _, _)
removeBodies(html, removeList, lastPos) ==
    IF removeList = <<>> THEN Slice(html, lastPos, Len(html))
    ELSE Slice(html, lastPos, Head(removeList)[1])
         \o removeBodies(html, Tail(removeList), Head(removeList)[2])

\* FilterXSS.process with the options of commentService.createComment
xss(content) ==
    IF content = <<>> THEN <<>>
    ELSE LET html == stripCommentTag(content, 0)
             st == parseTag(html, 1,
                     [rethtml |-> <<>>, lastPos |-> 0, tagStart |-> 0,
                      quoteStart |-> "", removeList |-> <<>>, posStart |-> -1])
         IN  removeBodies(st.rethtml, st.removeList, 0)

(***************************************************************************)
(* JavaScript values carried by a request: strings, numbers, undefined.    *)
(***************************************************************************)
Undefined == [t |-> "undefined", s |-> <<>>, n |-> 0]
Str(chars) == [t |-> "string", s |-> chars, n |-> 0]
Num(k) == [t |-> "number", s |-> <<>>, n |-> k]

Digits == <<"0", "1", "2", "3", "4", "5", "6", "7", "8", "9">>
IsDigit(c) == \E i \in 1..10 : Digits[i] = c
DigitVal(c) == (CHOOSE i \in 1..10 : Digits[i] = c) - 1

RECURSIVE DigitsToNat(_)
DigitsToNat(ds) ==
    IF ds = <<>> THEN 0
    ELSE 10 * DigitsToNat(SubSeq(ds, 1, Len(ds) - 1)) + DigitVal(ds[Len(ds)])

RECURSIVE NatToDigits(_)
NatToDigits(k) ==
    IF k < 10 THEN <<Digits[k + 1]>>
    ELSE NatToDigits(k \div 10) \o <<Digits[(k % 10) + 1]>>

\* express-validator's toString of a field value before a validator runs
toString(v) ==
    IF v.t = "string" THEN v.s
    ELSE IF v.t = "number"
         THEN IF v.n < 0 THEN <<"-">> \o NatToDigits(-v.n) ELSE NatToDigits(v.n)
    ELSE <<>>

\* validator.js isInt's pattern when allow_leading_zeroes is not set to
\* false: /^[-+]?[0-9]+$/
matchesInt(str) ==
    LET ds == IF str # <<>> /\ Head(str) \in {"-", "+"} THEN Tail(str) ELSE str
    IN  /\ ds # <<>>
        /\ \A i \in 1..Len(ds) : IsDigit(ds[i])

\* parseInt(str, 10) of a string that matchesInt
parseInt(str) ==
    IF Head(str) = "-" THEN 0 - DigitsToNat(Tail(str))
    ELSE IF Head(str) = "+" THEN DigitsToNat(Tail(str))
    ELSE DigitsToNat(str)

\* an isInt whose minimum is 0
isIntFromZero(v) == LET str == toString(v) IN matchesInt(str) /\ parseInt(str) >= 0

\* .isInt({ min: 1 })
isInt(v) == LET str == toString(v) IN matchesInt(str) /\ parseInt(str) >= 1

(***************************************************************************)
(* Bounds of the model.                                                    *)
(***************************************************************************)
\* requests received in one behaviour of Spec, and clock steps of TickMs
MaxRequests == 2
MaxTicks == 1
\* the same for the rate-limiting workload SpecRate
MaxBurst == 4
MaxRateTicks == 4
\* rateLimit({ max }) of the three limiters, scaled down from 100 / 50 / 10
\* (src/unnamed/part_003 lines 80, 92, 104) keeping their order
apiMax == 3
writeMax == 2
populateMax == 2

(***************************************************************************)
(* Program constants.                                                      *)
(***************************************************************************)
\* the clock advances in steps of the shortest window
TickMs == 15 * 60 * 1000
apiWindowMs == 15 * 60 * 1000
writeWindowMs == 15 * 60 * 1000
populateWindowMs == 60 * 60 * 1000
\* validateComment: req.sanitizedComment.length > 1000
MaxCommentLength == 1000
\* Comment.content validate len: [1, 5000]
ContentLenMin == 1
ContentLenMax == 5000
\* express.json / express.text { limit: '10kb' }; body-parser's default '100kb'
HardenedBodyLimit == 10 * 1024
DefaultBodyLimit == 100 * 1024
\* https://randomuser.me/api/?results=3
PopulateResults == 3

Clients == {"A", "B"}
Slots == {"r1", "r2"}
Limiters == {"apiLimiter", "writeLimiter", "populateLimiter"}
\* the two server entry files of the repository
Entries == {"part_001", "server.js"}

windowMs(l) ==
    IF l = "apiLimiter" THEN apiWindowMs
    ELSE IF l = "writeLimiter" THEN writeWindowMs
    ELSE populateWindowMs

max(l) ==
    IF l = "apiLimiter" THEN apiMax
    ELSE IF l = "writeLimiter" THEN writeMax
    ELSE populateMax

limiterMessage(l) ==
    IF l = "apiLimiter" THEN "Too many requests from this IP, please try again later."
    ELSE IF l = "writeLimiter" THEN "Too many write requests from this IP, please try again later."
    ELSE "Too many populate requests. Please try again later."

(***************************************************************************)
(* Requests the clients send.                                              *)
(***************************************************************************)
\* req.body: a text/plain body is a string, anything else an object ({} when
\* the request has no body) whose fields may be absent.
TextBody(chars) == [kind |-> "text", text |-> chars, comment |-> Undefined, userId |-> Undefined]
JsonBody(comment, userId) == [kind |-> "json", text |-> <<>>, comment |-> comment, userId |-> userId]
NoBody == JsonBody(Undefined, Undefined)

Request(route, body, id) ==
    [route |-> route, origin |-> "", contentLength |-> Len(body.text),
     body |-> body, id |-> id]

Hi == <<"h", "i">>
PaddedHi == <<" ", "h", "i", " ">>
BoldTag == <<"<", "b", ">">>
ScriptHello ==
    <<"<", "s", "c", "r", "i", "p", "t", ">", "a", "l", "e", "r", "t", "(", "1", ")",
      "<", "/", "s", "c", "r", "i", "p", "t", ">", "H", "e", "l", "l", "o">>
\* markup followed by MaxCommentLength letters: longer than the validator allows
LongMarkup == BoldTag \o [i \in 1..MaxCommentLength |-> "a"]

Requests ==
    { Request("GET /", NoBody, <<>>),
      Request("GET /health", NoBody, <<>>),
      Request("GET /populate", NoBody, <<>>),
      Request("GET /users", NoBody, <<>>),
      Request("POST /user", JsonBody(Undefined, Num(1)), <<>>),
      Request("POST /user", JsonBody(Undefined, Str(BoldTag)), <<>>),
      Request("POST /user", NoBody, <<>>),
      Request("POST /comment", TextBody(Hi), <<>>),
      Request("POST /comment", TextBody(PaddedHi), <<>>),
      Request("POST /comment", TextBody(BoldTag), <<>>),
      Request("POST /comment", TextBody(ScriptHello), <<>>),
      Request("POST /comment", TextBody(LongMarkup), <<>>),
      Request("POST /comment", TextBody(<<" ">>), <<>>),
      Request("POST /comment", JsonBody(Str(Hi), Undefined), <<>>),
      Request("POST /comment", NoBody, <<>>),
      Request("GET /comments", NoBody, <<>>),
      Request("GET /comments/:id", NoBody, <<"1">>),
      Request("GET /comments/:id", NoBody, <<"a", "b", "c">>),
      Request("DELETE /comments/:id", NoBody, <<"1">>),
      Request("DELETE /comments/:id", NoBody, <<"0">>),
      Request("POST /query", NoBody, <<>>),
      Request("GET /nope", NoBody, <<>>),
      \* a browser page of another site
      [Request("GET /health", NoBody, <<>>) EXCEPT !.origin = "http://evil.example"],
      \* a body announced larger than 10kb
      [Request("POST /comment", TextBody(Hi), <<>>) EXCEPT !.contentLength = 20000] }

\* the three records https://randomuser.me/api/?results=3 answers with
Candidates ==
    << [first |-> "Ann", last |-> "Lee", email |-> "ann@example.com", age |-> 31],
       [first |-> "Bob", last |-> "Ray", email |-> "bob@example.com", age |-> 42],
       [first |-> "Cyd", last |-> "Orr", email |-> "cyd@example.com", age |-> 53] >>

(***************************************************************************)
(* State.                                                                  *)
(***************************************************************************)
VARIABLES
    entry,        \* the server entry file the process was started from
    now,          \* Date.now(), ms
    store,        \* each limiter's MemoryStore: client -> totalHits, resetTime
    comments,     \* rows of table comments
    nextCommentId,
    users,        \* rows of table users
    nextUserId,
    req,          \* the requests in flight, one per slot
    served,       \* requests received so far
    window,       \* history: per limiter and client, the window the clock gives
    populateTimes \* history: per client, when userService.populateUsers ran

vars == <<entry, now, store, comments, nextCommentId, users, nextUserId, req,
          served, window, populateTimes>>

NoResp == [status |-> 0, success |-> "absent", error |-> "", message |-> "",
           details |-> <<>>, rows |-> <<>>]

Idle ==
    [pc |-> "idle", idx |-> 0, client |-> "", q |-> Request("", NoBody, <<>>),
     totalHits |-> 0, resetTime |-> 0,
     ordinal |-> [l \in Limiters |-> 0], windowStart |-> [l \in Limiters |-> 0],
     sanitizedComment |-> Undefined,
     intArg |-> 0, content |-> Undefined, found |-> <<>>, created |-> <<>>,
     trace |-> <<>>,
     thrown |-> "",
     resp |-> NoResp]

\* res.status(status).json({ success: false, error })
Failure(status, error) ==
    [NoResp EXCEPT !.status = status, !.success = "false", !.error = error]

\* res.status(status).json({ success: true, message, ...rows })
Success(status, message, rows) ==
    [NoResp EXCEPT !.status = status, !.success = "true", !.message = message,
                   !.rows = rows]

Respond(rq, resp, events) ==
    [rq EXCEPT !.pc = "done", !.resp = resp, !.trace = @ \o events]

\* a catch block that hands the error on, next(error): the global error
\* handler answers with err.message
catchErrorNext(rq, message, error, events) ==
    [rq EXCEPT !.pc = "done", !.thrown = error, !.trace = @ \o events,
               !.resp = [NoResp EXCEPT !.status = 500, !.success = "false",
                                       !.error = error]]

\* catch (error) { console.error(..., error);
\*                 res.status(500).json({ success: false, error: message }) }
catchError(rq, message, error, events) ==
    [rq EXCEPT !.pc = "done", !.thrown = error, !.trace = @ \o events,
               !.resp = [NoResp EXCEPT !.status = 500, !.success = "false",
                                       !.error = message]]

\* next(): the following middleware of the route's chain starts
CallNext(rq, events) ==
    [rq EXCEPT !.pc = "start", !.idx = @ + 1, !.trace = @ \o events]

(***************************************************************************)
(* Routing: the ordered middleware chain of each route.                    *)
(***************************************************************************)
\* a populate route registered without its limiter
populateRouteUnlimited == <<"populate">>

\* router.get('/populate', populateLimiter, userController.populate)
populateRoute == <<"populateLimiter", "populate">>

\* a comment route whose validator is registered ahead of its limiter
commentRouteValidatorFirst == <<"validateComment", "writeLimiter", "createComment">>

\* router.post('/comment', writeLimiter, validators.validateComment,
\*             commentController.createComment)
commentRoute == <<"writeLimiter", "validateComment", "createComment">>

RouteChain(route) ==
    CASE route = "GET /" -> <<"home">>
      [] route = "GET /health" -> <<"health">>
      [] route = "GET /populate" -> populateRoute
      [] route = "GET /users" -> <<"getUserIds">>
      [] route = "POST /user" -> <<"validateUserId", "getUserById">>
      [] route = "POST /comment" -> commentRoute
      [] route = "GET /comments" -> <<"getAllComments">>
      [] route = "GET /comments/:id" -> <<"validateCommentId", "getCommentById">>
      [] route = "DELETE /comments/:id" ->
            <<"writeLimiter", "validateCommentId", "deleteComment">>
      [] route = "POST /query" -> <<"query">>
      [] OTHER -> <<"notFound">>

\* app.use(apiLimiter) is in part_001 only
AppChain(e, route) ==
    (IF e = "part_001" THEN <<"apiLimiter">> ELSE <<>>) \o RouteChain(route)

Current(rq) == AppChain(entry, rq.q.route)[rq.idx]

At(r, name) == req[r].pc = "start" /\ Current(req[r]) = name

(***************************************************************************)
(* Rate limiting: express-rate-limit with its per-process MemoryStore.     *)
(***************************************************************************)
\* an increment that is skipped once the counter has reached the limit
IncrementWithHeadroom(cur, l) ==
    LET live == IF cur.resetTime <= now
                THEN [totalHits |-> 0, resetTime |-> now + windowMs(l)]
                ELSE cur
    IN  IF live.totalHits >= max(l) THEN live
        ELSE [live EXCEPT !.totalHits = @ + 1]

\* an increment that reads and writes in two steps: started while another
\* request of the limiter is between its own two steps, it ends on the
\* count that one wrote
IncrementRacy(cur, l) ==
    LET live == IF cur.resetTime <= now
                THEN [totalHits |-> 0, resetTime |-> now + windowMs(l)]
                ELSE cur
    IN  IF \E r \in Slots : req[r].pc = "decide" /\ Current(req[r]) = l
        THEN live
        ELSE [live EXCEPT !.totalHits = @ + 1]

\* MemoryStore.increment(key): an expired (or new) entry restarts its window
\* at now, then the hit is counted.  Runs without yielding.
Increment(cur, l) ==
    LET live == IF cur.resetTime <= now
                THEN [totalHits |-> 0, resetTime |-> now + windowMs(l)]
                ELSE cur
    IN  [live EXCEPT !.totalHits = @ + 1]

NoHits == [totalHits |-> 0, resetTime |-> 0]

\* MemoryStore's interval timer drops the entries whose window is over; an
\* entry that is over and one that is absent count alike
clearExpired(cur, t) == IF cur.resetTime <= t THEN NoHits ELSE cur

\* a test that turns away the request that reaches the limit
ExceedsAtLimit(totalHits, l) == totalHits >= max(l)

\* the middleware's test after the store answered: totalHits > limit
Exceeds(totalHits, l) == totalHits > max(l)

\* History, by the clock alone: a key's window opens with the first request
\* counted when none is open, stays open for windowMs, and counts every
\* request the limiter evaluates meanwhile (n) and the ones it lets pass.
\* follows: the key's last window before this one turned a request away.
NoWindow == [start |-> 0, n |-> 0, passed |-> 0, follows |-> FALSE]

Expired(w, l, t) == w.n = 0 \/ t >= w.start + windowMs(l)

Closed(w, l) == [NoWindow EXCEPT !.follows = IF w.n = 0 THEN w.follows ELSE w.n > max(l)]

Counted(w, l) ==
    IF Expired(w, l, now)
    THEN [Closed(w, l) EXCEPT !.start = now, !.n = 1]
    ELSE [w EXCEPT !.n = @ + 1]

\* limiters with a constant keyGenerator: every address counts on one key
LimiterIncrementOneKey(r) ==
    /\ req[r].pc = "start"
    /\ Current(req[r]) \in Limiters
    /\ LET l == Current(req[r])
           c == req[r].client
           hit == Increment(store[l]["A"], l)
           seen == Counted(window[l][c], l)
       IN  /\ store' = [store EXCEPT ![l]["A"] = hit]
           /\ req' = [req EXCEPT ![r] =
                 [@ EXCEPT !.pc = "decide", !.totalHits = hit.totalHits,
                           !.resetTime = hit.resetTime,
                           !.ordinal[l] = seen.n, !.windowStart[l] = seen.start,
                           !.trace = Append(@, <<l, "increment">>)]]
           /\ window' = [window EXCEPT ![l][c] = seen]
    /\ UNCHANGED <<entry, now, comments, nextCommentId, users, nextUserId, served,
                   populateTimes>>

\* apiLimiter / writeLimiter / populateLimiter, first half: key = req.ip,
\* await store.increment(key)
LimiterIncrement(r) ==
    /\ req[r].pc = "start"
    /\ Current(req[r]) \in Limiters
    /\ LET l == Current(req[r])
           c == req[r].client
           hit == Increment(store[l][c], l)
           seen == Counted(window[l][c], l)
       IN  /\ store' = [store EXCEPT ![l][c] = hit]
           /\ req' = [req EXCEPT ![r] =
                 [@ EXCEPT !.pc = "decide", !.totalHits = hit.totalHits,
                           !.resetTime = hit.resetTime,
                           !.ordinal[l] = seen.n, !.windowStart[l] = seen.start,
                           !.trace = Append(@, <<l, "increment">>)]]
           /\ window' = [window EXCEPT ![l][c] = seen]
    /\ UNCHANGED <<entry, now, comments, nextCommentId, users, nextUserId, served,
                   populateTimes>>

\* second half: over the limit -> 429 with the limiter's message, else next()
LimiterDecide(r) ==
    /\ req[r].pc = "decide"
    /\ LET l == Current(req[r])
           c == req[r].client
           over == Exceeds(req[r].totalHits, l)
       IN  /\ req' = [req EXCEPT ![r] =
                 IF over
                 THEN Respond(@, Failure(429, limiterMessage(l)), <<<<l, "reject">>>>)
                 ELSE CallNext(@, <<<<l, "pass">>>>)]
           /\ window' = [window EXCEPT ![l][c] =
                 IF ~over /\ @.n > 0 /\ @.start = req[r].windowStart[l]
                 THEN [@ EXCEPT !.passed = @ + 1] ELSE @]
    /\ UNCHANGED <<entry, now, store, comments, nextCommentId, users, nextUserId, served,
                   populateTimes>>

(***************************************************************************)
(* server entry: cors, body parsers, 404 and the global error handler.     *)
(***************************************************************************)
AllowedOrigins == {"http://localhost:3000"}

\* part_001: corsOptions.origin rejects a foreign Origin header with an
\* Error; server.js: a fixed origin string, cors never rejects.
corsAllows(e, origin) ==
    IF e = "part_001" THEN origin = "" \/ origin \in AllowedOrigins ELSE TRUE

\* express.json / express.text limit
bodyLimit(e) == IF e = "part_001" THEN HardenedBodyLimit ELSE DefaultBodyLimit

\* app.use((err, req, res, next) => ...): err.status || 500, err.message
globalErrorHandler(status, message) ==
    Failure(IF status = 0 THEN 500 ELSE status, message)

\* A request arrives on a connection slot that is free (unused, or its last
\* response sent) and runs the stack down to the first middleware of its chain.
Receive(r, c, q) ==
    /\ req[r].pc \in {"idle", "done"}
    /\ served' = served + 1
    /\ LET rq == [Idle EXCEPT !.client = c, !.q = q, !.trace = <<<<"cors", "check">>>>]
       IN  req' = [req EXCEPT ![r] =
             IF ~corsAllows(entry, q.origin)
             THEN Respond(rq, globalErrorHandler(0, "Not allowed by CORS"),
                          <<<<"cors", "reject">>>>)
             ELSE IF q.contentLength > bodyLimit(entry)
             THEN Respond(rq, globalErrorHandler(413, "request entity too large"),
                          <<<<"bodyParser", "reject">>>>)
             ELSE CallNext(rq, <<<<"bodyParser", "parse">>>>)]
    /\ UNCHANGED <<entry, now, store, comments, nextCommentId, users, nextUserId, window, populateTimes>>

\* app.use((req, res) => res.status(404)...)
notFound(r) ==
    /\ At(r, "notFound")
    /\ req' = [req EXCEPT ![r] = Respond(@, Failure(404, "Route not found"), <<>>)]
    /\ UNCHANGED <<entry, now, store, comments, nextCommentId, users, nextUserId,
                   served, window, populateTimes>>

(***************************************************************************)
(* routes/index.js: the handlers defined inline.                           *)
(***************************************************************************)
home(r) ==
    /\ At(r, "home")
    /\ req' = [req EXCEPT ![r] =
          Respond(@, Success(200, "IPSSI_PATCH API - Secured Layered Architecture", <<>>), <<>>)]
    /\ UNCHANGED <<entry, now, store, comments, nextCommentId, users, nextUserId,
                   served, window, populateTimes>>

\* res.json({ status: 'ok', message: ... }): no success field
health(r) ==
    /\ At(r, "health")
    /\ req' = [req EXCEPT ![r] =
          Respond(@, [NoResp EXCEPT !.status = 200,
                                    !.message = "Server is running securely"], <<>>)]
    /\ UNCHANGED <<entry, now, store, comments, nextCommentId, users, nextUserId,
                   served, window, populateTimes>>

\* the legacy handler left enabled: it answers the query
queryEnabled(r) ==
    /\ At(r, "query")
    /\ req' = [req EXCEPT ![r] = Respond(@, Success(200, "", <<>>), <<>>)]
    /\ UNCHANGED <<entry, now, store, comments, nextCommentId, users, nextUserId,
                   served, window, populateTimes>>

query(r) ==
    /\ At(r, "query")
    /\ req' = [req EXCEPT ![r] = Respond(@, Failure(410,
          "This endpoint has been deprecated for security reasons. Please use /user endpoint instead."),
          <<>>)]
    /\ UNCHANGED <<entry, now, store, comments, nextCommentId, users, nextUserId,
                   served, window, populateTimes>>

(***************************************************************************)
(* validators (express-validator chains, then handleValidationErrors).     *)
(***************************************************************************)
ValidationError(msg, path, value) == [msg |-> msg, path |-> path, value |-> value]

\* a chain that stops at its first failing validator
idErrorsFirstOnly(value, path, required, positive) ==
    IF value.t = "undefined" THEN <<ValidationError(required, path, value)>>
    ELSE IF ~isInt(value) THEN <<ValidationError(positive, path, value)>>
    ELSE <<>>

\* .exists().withMessage(required).isInt({ min: 1 }).withMessage(positive):
\* every validator of the chain runs, each failure adds its own error
idErrors(value, path, required, positive) ==
    (IF value.t = "undefined" THEN <<ValidationError(required, path, value)>> ELSE <<>>)
    \o (IF ~isInt(value) THEN <<ValidationError(positive, path, value)>> ELSE <<>>)

\* first custom validator of validateComment: the text the request carries
extractedComment(b) ==
    IF b.kind = "text" THEN Str(trim(b.text))
    ELSE IF b.comment.t = "string" THEN Str(trim(b.comment.s))
    ELSE Undefined

\* a length check that also turns away a text of exactly the maximum
commentErrorsAtLimit(b) ==
    LET sc == extractedComment(b) IN
    (IF sc.t = "undefined"
     THEN <<ValidationError("Comment text is required", "", b)>> ELSE <<>>)
    \o (IF sc.t = "undefined" \/ Len(sc.s) = 0
        THEN <<ValidationError("Comment cannot be empty", "", b)>>
        ELSE IF Len(sc.s) >= MaxCommentLength
        THEN <<ValidationError("Comment must be less than 1000 characters", "", b)>>
        ELSE <<>>)

\* the two custom validators of validateComment; the error carries req.body
commentErrors(b) ==
    LET sc == extractedComment(b) IN
    (IF sc.t = "undefined"
     THEN <<ValidationError("Comment text is required", "", b)>> ELSE <<>>)
    \o (IF sc.t = "undefined" \/ Len(sc.s) = 0
        THEN <<ValidationError("Comment cannot be empty", "", b)>>
        ELSE IF Len(sc.s) > MaxCommentLength
        THEN <<ValidationError("Comment must be less than 1000 characters", "", b)>>
        ELSE <<>>)

\* the 400 is sent but the return is missing: next() runs all the same
handleValidationErrorsThenNext(rq, errors, who) ==
    IF errors # <<>>
    THEN CallNext([rq EXCEPT !.resp = [Failure(400, "Validation failed")
                                         EXCEPT !.details = errors]],
                  <<<<who, "reject">>>>)
    ELSE CallNext(rq, <<<<who, "pass">>>>)

\* handleValidationErrors: errors -> 400 with details: errors.array(), no next()
handleValidationErrors(rq, errors, who) ==
    IF errors # <<>>
    THEN Respond(rq, [Failure(400, "Validation failed") EXCEPT !.details = errors],
                 <<<<who, "reject">>>>)
    ELSE CallNext(rq, <<<<who, "pass">>>>)

validateUserId(r) ==
    /\ At(r, "validateUserId")
    /\ LET v == req[r].q.body.userId
           errors == idErrors(v, "userId", "userId is required",
                              "userId must be a positive integer")
       IN  req' = [req EXCEPT ![r] = handleValidationErrors(
                     [@ EXCEPT !.intArg = IF errors = <<>> THEN parseInt(toString(v)) ELSE 0],
                     errors, "validateUserId")]
    /\ UNCHANGED <<entry, now, store, comments, nextCommentId, users, nextUserId,
                   served, window, populateTimes>>

validateCommentId(r) ==
    /\ At(r, "validateCommentId")
    /\ LET v == Str(req[r].q.id)
           errors == idErrors(v, "id", "Comment ID is required",
                              "Comment ID must be a positive integer")
       IN  req' = [req EXCEPT ![r] = handleValidationErrors(
                     [@ EXCEPT !.intArg = IF errors = <<>> THEN parseInt(toString(v)) ELSE 0],
                     errors, "validateCommentId")]
    /\ UNCHANGED <<entry, now, store, comments, nextCommentId, users, nextUserId,
                   served, window, populateTimes>>

validateComment(r) ==
    /\ At(r, "validateComment")
    /\ LET b == req[r].q.body
       IN  req' = [req EXCEPT ![r] = handleValidationErrors(
                     [@ EXCEPT !.sanitizedComment = extractedComment(b)],
                     commentErrors(b), "validateComment")]
    /\ UNCHANGED <<entry, now, store, comments, nextCommentId, users, nextUserId,
                   served, window, populateTimes>>

(***************************************************************************)
(* Persistence: the Sequelize models Comment and User.                     *)
(***************************************************************************)
\* Sequelize's notEmpty: the text is not made of whitespace only
notEmpty(chars) == \E i \in 1..Len(chars) : chars[i] \notin WhiteSpace

\* Comment.content: allowNull: false, validate: { notEmpty: true, len: [1, 5000] }
contentValid(v) ==
    /\ v.t = "string"
    /\ notEmpty(v.s)
    /\ Len(v.s) >= ContentLenMin
    /\ Len(v.s) <= ContentLenMax

\* a lookup that takes the first row, whatever its identifier
findByPkFirst(table, id) ==
    {row \in table : \A other \in table : row.id <= other.id}

findByPk(table, id) == {row \in table : row.id = id}

\* rows of the set in ascending id order
RECURSIVE ById(_)
ById(rows) ==
    IF rows = {} THEN <<>>
    ELSE LET row == CHOOSE x \in rows : \A y \in rows : x.id <= y.id
         IN  <<row>> \o ById(rows \ {row})

\* order: [['createdAt', 'DESC']]; rows with one timestamp come in any order
NewestFirst(rows) ==
    {s \in [1..Cardinality(rows) -> rows] :
        /\ \A i, j \in 1..Cardinality(rows) : i # j => s[i] # s[j]
        /\ \A i, j \in 1..Cardinality(rows) : i < j => s[i].createdAt >= s[j].createdAt}

(***************************************************************************)
(* commentController + commentService                                      *)
(***************************************************************************)
\* typeof req.body === 'string' ? req.body : req.body.comment
commentText(b) == IF b.kind = "text" THEN Str(b.text) ELSE b.comment

\* the text commentService.createComment is called with
contentOf(rq) == commentText(rq.q.body)

\* !commentText || commentText.trim() === ''
textMissing(v) ==
    \/ v.t = "undefined"
    \/ (v.t = "number" /\ v.n = 0)
    \/ (v.t = "string" /\ trim(v.s) = <<>>)

\* a create whose failure comes after the row was written
createCommentLateFailure(r) ==
    /\ At(r, "createComment")
    /\ LET text == contentOf(req[r]) IN
       IF textMissing(text)
       THEN /\ req' = [req EXCEPT ![r] =
                  Respond(@, Failure(400, "Comment text is required"),
                          <<<<"createComment", "reject">>>>)]
            /\ UNCHANGED <<comments, nextCommentId>>
       ELSE IF text.t # "string"
       THEN \* commentText.trim is not a function: caught by the handler
            /\ req' = [req EXCEPT ![r] =
                  catchError(@, "Failed to create comment", "TypeError",
                          <<<<"createComment", "throw">>>>)]
            /\ UNCHANGED <<comments, nextCommentId>>
       ELSE \E sanitizedContent \in {Str(xss(text.s))} :
            LET row == [id |-> nextCommentId, content |-> sanitizedContent.s,
                        createdAt |-> now]
                called == [req[r] EXCEPT !.content = sanitizedContent,
                              !.trace = @ \o <<<<"createComment", "call">>, <<"xss", "call">>,
                                               <<"Comment.create", "call">>>>]
            IN  \/ /\ ~contentValid(sanitizedContent)
                   /\ req' = [req EXCEPT ![r] =
                         catchError(called, "Failed to create comment", "SequelizeValidationError",
                                 <<<<"Comment.create", "invalid">>>>)]
                   /\ UNCHANGED <<comments, nextCommentId>>
                \/ /\ contentValid(sanitizedContent)
                   /\ comments' = comments \cup {row}
                   /\ nextCommentId' = nextCommentId + 1
                   /\ req' = [req EXCEPT ![r] =
                         Respond(called, Success(201, "Comment created successfully", <<row>>),
                                 <<<<"Comment.create", "ok">>>>)]
                \/ /\ contentValid(sanitizedContent)
                   /\ comments' = comments \cup {row}
                   /\ nextCommentId' = nextCommentId + 1
                   /\ req' = [req EXCEPT ![r] =
                         catchError(called, "Failed to create comment", "SequelizeDatabaseError",
                                 <<<<"Comment.create", "fail">>>>)]
    /\ UNCHANGED <<entry, now, store, users, nextUserId, served, window, populateTimes>>

createComment(r) ==
    /\ At(r, "createComment")
    /\ LET text == contentOf(req[r]) IN
       IF textMissing(text)
       THEN /\ req' = [req EXCEPT ![r] =
                  Respond(@, Failure(400, "Comment text is required"),
                          <<<<"createComment", "reject">>>>)]
            /\ UNCHANGED <<comments, nextCommentId>>
       ELSE IF text.t # "string"
       THEN \* commentText.trim is not a function: caught by the handler
            /\ req' = [req EXCEPT ![r] =
                  catchError(@, "Failed to create comment", "TypeError",
                          <<<<"createComment", "throw">>>>)]
            /\ UNCHANGED <<comments, nextCommentId>>
       ELSE \E sanitizedContent \in {Str(xss(text.s))} :
            LET row == [id |-> nextCommentId, content |-> sanitizedContent.s,
                        createdAt |-> now]
                called == [req[r] EXCEPT !.content = sanitizedContent,
                              !.trace = @ \o <<<<"createComment", "call">>, <<"xss", "call">>,
                                               <<"Comment.create", "call">>>>]
            IN  \/ /\ ~contentValid(sanitizedContent)
                   /\ req' = [req EXCEPT ![r] =
                         catchError(called, "Failed to create comment", "SequelizeValidationError",
                                 <<<<"Comment.create", "invalid">>>>)]
                   /\ UNCHANGED <<comments, nextCommentId>>
                \/ /\ contentValid(sanitizedContent)
                   /\ comments' = comments \cup {row}
                   /\ nextCommentId' = nextCommentId + 1
                   /\ req' = [req EXCEPT ![r] =
                         Respond(called, Success(201, "Comment created successfully", <<row>>),
                                 <<<<"Comment.create", "ok">>>>)]
                \/ /\ contentValid(sanitizedContent)
                   /\ req' = [req EXCEPT ![r] =
                         catchError(called, "Failed to create comment", "SequelizeDatabaseError",
                                 <<<<"Comment.create", "fail">>>>)]
                   /\ UNCHANGED <<comments, nextCommentId>>
    /\ UNCHANGED <<entry, now, store, users, nextUserId, served, window, populateTimes>>

getAllComments(r) ==
    /\ At(r, "getAllComments")
    /\ \/ \E rows \in NewestFirst(comments) :
             req' = [req EXCEPT ![r] =
                Respond(@, Success(200, "", rows),
                        <<<<"getAllComments", "call">>, <<"Comment.findAll", "ok">>>>)]
       \/ req' = [req EXCEPT ![r] =
             catchError(@, "Failed to fetch comments", "SequelizeDatabaseError",
                     <<<<"getAllComments", "call">>, <<"Comment.findAll", "fail">>>>)]
    /\ UNCHANGED <<entry, now, store, comments, nextCommentId, users, nextUserId,
                   served, window, populateTimes>>

\* a lookup that consumes what it reads: the row found is gone afterwards
getCommentByIdOnce(r) ==
    /\ At(r, "getCommentById")
    /\ LET hit == findByPk(comments, req[r].intArg) IN
       /\ req' = [req EXCEPT ![r] =
             IF hit = {}
             THEN Respond(@, Failure(404, "Comment not found"),
                          <<<<"getCommentById", "call">>, <<"Comment.findByPk", "ok">>>>)
             ELSE Respond(@, Success(200, "", ById(hit)),
                          <<<<"getCommentById", "call">>, <<"Comment.findByPk", "ok">>>>)]
       /\ comments' = comments \ hit
    /\ UNCHANGED <<entry, now, store, nextCommentId, users, nextUserId,
                   served, window, populateTimes>>

getCommentById(r) ==
    /\ At(r, "getCommentById")
    /\ LET hit == findByPk(comments, req[r].intArg) IN
       \/ req' = [req EXCEPT ![r] =
             IF hit = {}
             THEN Respond(@, Failure(404, "Comment not found"),
                          <<<<"getCommentById", "call">>, <<"Comment.findByPk", "ok">>>>)
             ELSE Respond(@, Success(200, "", ById(hit)),
                          <<<<"getCommentById", "call">>, <<"Comment.findByPk", "ok">>>>)]
       \/ req' = [req EXCEPT ![r] =
             catchError(@, "Failed to fetch comment", "SequelizeDatabaseError",
                     <<<<"getCommentById", "call">>, <<"Comment.findByPk", "fail">>>>)]
    /\ UNCHANGED <<entry, now, store, comments, nextCommentId, users, nextUserId,
                   served, window, populateTimes>>

\* deleteComment up to the end of  await Comment.findByPk(commentId)
deleteComment(r) ==
    /\ At(r, "deleteComment")
    /\ LET hit == findByPk(comments, req[r].intArg) IN
       \/ req' = [req EXCEPT ![r] =
             IF hit = {}
             THEN Respond(@, Failure(404, "Comment not found"),
                          <<<<"deleteComment", "call">>, <<"Comment.findByPk", "ok">>>>)
             ELSE [@ EXCEPT !.pc = "destroy", !.found = ById(hit),
                      !.trace = @ \o <<<<"deleteComment", "call">>,
                                       <<"Comment.findByPk", "ok">>>>]]
       \/ req' = [req EXCEPT ![r] =
             catchError(@, "Failed to delete comment", "SequelizeDatabaseError",
                     <<<<"deleteComment", "call">>, <<"Comment.findByPk", "fail">>>>)]
    /\ UNCHANGED <<entry, now, store, comments, nextCommentId, users, nextUserId,
                   served, window, populateTimes>>

\* a destroy() that confirms and leaves the row in the table
deleteCommentDestroyKeeping(r) ==
    /\ req[r].pc = "destroy"
    /\ req' = [req EXCEPT ![r] =
          Respond(@, Success(200, "Comment deleted successfully", <<>>),
                  <<<<"comment.destroy", "ok">>>>)]
    /\ UNCHANGED <<entry, now, store, comments, nextCommentId, users, nextUserId,
                   served, window, populateTimes>>

\* await comment.destroy(): DELETE ... WHERE id, whatever it still matches
deleteCommentDestroy(r) ==
    /\ req[r].pc = "destroy"
    /\ \/ /\ comments' = {row \in comments : row.id # req[r].found[1].id}
          /\ req' = [req EXCEPT ![r] =
                Respond(@, Success(200, "Comment deleted successfully", <<>>),
                        <<<<"comment.destroy", "ok">>>>)]
       \/ /\ UNCHANGED comments
          /\ req' = [req EXCEPT ![r] =
                catchError(@, "Failed to delete comment", "SequelizeDatabaseError",
                        <<<<"comment.destroy", "fail">>>>)]
    /\ UNCHANGED <<entry, now, store, nextCommentId, users, nextUserId, served, window, populateTimes>>

(***************************************************************************)
(* userController + userService                                            *)
(***************************************************************************)
\* populate up to  axios.get(...): the request is sent and the handler
\* waits for its promise (no timeout is configured)
populate(r) ==
    /\ At(r, "populate")
    /\ populateTimes' = [populateTimes EXCEPT ![req[r].client] = Append(@, now)]
    /\ req' = [req EXCEPT ![r] =
          [@ EXCEPT !.pc = "fetching", !.trace = @ \o <<<<"populate", "call">>>>]]
    /\ UNCHANGED <<entry, now, store, comments, nextCommentId, users, nextUserId,
                   served, window>>

\* a fetch whose failure is swallowed: the loop of creations starts anyway
populateFetchedAnyway(r) ==
    /\ req[r].pc = "fetching"
    /\ \/ req' = [req EXCEPT ![r] =
             [@ EXCEPT !.pc = "creating",
                !.trace = @ \o <<<<"axios.get", "ok">>>>]]
       \/ req' = [req EXCEPT ![r] =
             [@ EXCEPT !.pc = "creating", !.thrown = "AxiosError",
                !.trace = @ \o <<<<"axios.get", "fail">>>>]]
    /\ UNCHANGED <<entry, now, store, comments, nextCommentId, users, nextUserId,
                   served, window, populateTimes>>

\* randomuser.me answers or the connection fails: await axios.get(...) ends
populateFetched(r) ==
    /\ req[r].pc = "fetching"
    /\ \/ req' = [req EXCEPT ![r] =
             [@ EXCEPT !.pc = "creating",
                !.trace = @ \o <<<<"axios.get", "ok">>>>]]
       \/ req' = [req EXCEPT ![r] =
             catchError(@, "Failed to populate users", "AxiosError",
                     <<<<"axios.get", "fail">>>>)]
    /\ UNCHANGED <<entry, now, store, comments, nextCommentId, users, nextUserId,
                   served, window, populateTimes>>

\* a loop that puts each created user in front of the list, unshift for push
populateCreateUnshift(r) ==
    /\ req[r].pc = "creating"
    /\ LET userData == Candidates[Len(req[r].created) + 1]
           user == [id |-> nextUserId, firstName |-> userData.first,
                    lastName |-> userData.last, email |-> userData.email,
                    age |-> userData.age]
           createdUsers == <<user>> \o req[r].created
       IN  /\ users' = users \cup {user}
           /\ nextUserId' = nextUserId + 1
           /\ req' = [req EXCEPT ![r] =
                 IF Len(createdUsers) = PopulateResults
                 THEN Respond([@ EXCEPT !.created = createdUsers],
                              Success(200, "Users populated successfully", createdUsers),
                              <<<<"User.create", "ok">>>>)
                 ELSE [@ EXCEPT !.created = createdUsers,
                          !.trace = Append(@, <<"User.create", "ok">>)]]
    /\ UNCHANGED <<entry, now, store, comments, nextCommentId, served, window, populateTimes>>

\* a loop inside a transaction: a failing creation takes the users the
\* request created back out
populateCreateRollback(r) ==
    /\ req[r].pc = "creating"
    /\ LET userData == Candidates[Len(req[r].created) + 1]
           user == [id |-> nextUserId, firstName |-> userData.first,
                    lastName |-> userData.last, email |-> userData.email,
                    age |-> userData.age]
           createdUsers == Append(req[r].created, user)
       IN  \/ /\ users' = users \cup {user}
              /\ nextUserId' = nextUserId + 1
              /\ req' = [req EXCEPT ![r] =
                    IF Len(createdUsers) = PopulateResults
                    THEN Respond([@ EXCEPT !.created = createdUsers],
                                 Success(200, "Users populated successfully", createdUsers),
                                 <<<<"User.create", "ok">>>>)
                    ELSE [@ EXCEPT !.created = createdUsers,
                             !.trace = Append(@, <<"User.create", "ok">>)]]
           \/ /\ users' = users \ {req[r].created[i] : i \in 1..Len(req[r].created)}
              /\ UNCHANGED nextUserId
              /\ req' = [req EXCEPT ![r] =
                    catchError(@, "Failed to populate users", "SequelizeDatabaseError",
                            <<<<"User.create", "fail">>>>)]
    /\ UNCHANGED <<entry, now, store, comments, nextCommentId, served, window, populateTimes>>

\* one turn of the loop: await User.create(...) for the next candidate, and
\* after the last one the response
populateCreate(r) ==
    /\ req[r].pc = "creating"
    /\ LET userData == Candidates[Len(req[r].created) + 1]
           user == [id |-> nextUserId, firstName |-> userData.first,
                    lastName |-> userData.last, email |-> userData.email,
                    age |-> userData.age]
           createdUsers == Append(req[r].created, user)
       IN  \/ /\ users' = users \cup {user}
              /\ nextUserId' = nextUserId + 1
              /\ req' = [req EXCEPT ![r] =
                    IF Len(createdUsers) = PopulateResults
                    THEN Respond([@ EXCEPT !.created = createdUsers],
                                 Success(200, "Users populated successfully", createdUsers),
                                 <<<<"User.create", "ok">>>>)
                    ELSE [@ EXCEPT !.created = createdUsers,
                             !.trace = Append(@, <<"User.create", "ok">>)]]
           \/ /\ UNCHANGED <<users, nextUserId>>
              /\ req' = [req EXCEPT ![r] =
                    catchError(@, "Failed to populate users", "SequelizeDatabaseError",
                            <<<<"User.create", "fail">>>>)]
    /\ UNCHANGED <<entry, now, store, comments, nextCommentId, served, window, populateTimes>>

\* attributes: ['id', 'firstName', 'lastName']
listView(row) == [id |-> row.id, firstName |-> row.firstName, lastName |-> row.lastName]

getUserIds(r) ==
    /\ At(r, "getUserIds")
    /\ \/ req' = [req EXCEPT ![r] =
             Respond(@, Success(200, "",
                        [i \in 1..Cardinality(users) |-> listView(ById(users)[i])]),
                     <<<<"getUserIds", "call">>, <<"User.findAll", "ok">>>>)]
       \/ req' = [req EXCEPT ![r] =
             catchError(@, "Failed to fetch users", "SequelizeDatabaseError",
                     <<<<"getUserIds", "call">>, <<"User.findAll", "fail">>>>)]
    /\ UNCHANGED <<entry, now, store, comments, nextCommentId, users, nextUserId,
                   served, window, populateTimes>>

getUserById(r) ==
    /\ At(r, "getUserById")
    /\ LET hit == findByPk(users, req[r].intArg) IN
       IF req[r].intArg = 0
       THEN req' = [req EXCEPT ![r] =
               Respond(@, Failure(400, "userId is required"),
                       <<<<"getUserById", "reject">>>>)]
       ELSE \/ req' = [req EXCEPT ![r] =
                  IF hit = {}
                  THEN Respond(@, Failure(404, "User not found"),
                               <<<<"getUserById", "call">>, <<"User.findByPk", "ok">>>>)
                  ELSE Respond(@, Success(200, "", ById(hit)),
                               <<<<"getUserById", "call">>, <<"User.findByPk", "ok">>>>)]
            \/ req' = [req EXCEPT ![r] =
                  catchError(@, "Failed to fetch user", "SequelizeDatabaseError",
                          <<<<"getUserById", "call">>, <<"User.findByPk", "fail">>>>)]
    /\ UNCHANGED <<entry, now, store, comments, nextCommentId, users, nextUserId,
                   served, window, populateTimes>>

(***************************************************************************)
(* Environment: time passes.                                               *)
(***************************************************************************)
\* the calls of populateUsers not older than populateWindowMs at time t
WithinLastHour(times, t) ==
    SelectSeq(times, LAMBDA at : at + populateWindowMs > t)

Tick(limit) ==
    /\ now < limit * TickMs
    /\ now' = now + TickMs
    /\ store' = [l \in Limiters |-> [c \in Clients |->
                    clearExpired(store[l][c], now + TickMs)]]
    /\ window' = [l \in Limiters |-> [c \in Clients |->
                     IF Expired(window[l][c], l, now + TickMs)
                     THEN Closed(window[l][c], l) ELSE window[l][c]]]
    /\ populateTimes' = [c \in Clients |->
                     WithinLastHour(populateTimes[c], now + TickMs)]
    /\ UNCHANGED <<entry, comments, nextCommentId, users, nextUserId, req, served>>

Init ==
    /\ entry \in Entries
    /\ now = 0
    /\ store = [l \in Limiters |-> [c \in Clients |-> NoHits]]
    /\ comments = {}
    /\ nextCommentId = 1
    /\ users = {}
    /\ nextUserId = 1
    /\ req = [r \in Slots |-> Idle]
    /\ served = 0
    /\ window = [l \in Limiters |-> [c \in Clients |-> NoWindow]]
    /\ populateTimes = [c \in Clients |-> <<>>]

Next ==
    \/ \E r \in Slots, q \in Requests :
          served < MaxRequests /\ Receive(r, "A", q)
    \/ \E r \in Slots : LimiterIncrement(r)
    \/ \E r \in Slots : LimiterDecide(r)
    \/ \E r \in Slots : validateUserId(r)
    \/ \E r \in Slots : validateComment(r)
    \/ \E r \in Slots : validateCommentId(r)
    \/ \E r \in Slots : home(r)
    \/ \E r \in Slots : health(r)
    \/ \E r \in Slots : query(r)
    \/ \E r \in Slots : notFound(r)
    \/ \E r \in Slots : populate(r)
    \/ \E r \in Slots : populateFetched(r)
    \/ \E r \in Slots : populateCreate(r)
    \/ \E r \in Slots : getUserIds(r)
    \/ \E r \in Slots : getUserById(r)
    \/ \E r \in Slots : createComment(r)
    \/ \E r \in Slots : getAllComments(r)
    \/ \E r \in Slots : getCommentById(r)
    \/ \E r \in Slots : deleteComment(r)
    \/ \E r \in Slots : deleteCommentDestroy(r)
    \/ Tick(MaxTicks)

Spec == Init /\ [][Next]_vars

(***************************************************************************)
(* The rate-limiting workload: one request of each limiter class and the   *)
(* requests the stack answers ahead of the limiters, over more requests    *)
(* and a longer time.                                                      *)
(***************************************************************************)
RateRequests ==
    { Request("GET /health", NoBody, <<>>),
      Request("GET /populate", NoBody, <<>>),
      Request("POST /comment", TextBody(Hi), <<>>),
      [Request("GET /health", NoBody, <<>>) EXCEPT !.origin = "http://evil.example"],
      [Request("POST /comment", TextBody(Hi), <<>>) EXCEPT !.contentLength = 20000] }

\* one connection, served request after request
SeqSlots == {"r1"}

Quiet == \A r \in Slots : req[r].pc \in {"idle", "done"}

NextRate ==
    \/ \E r \in SeqSlots, q \in RateRequests :
          served < MaxBurst /\ Receive(r, "A", q)
    \/ \E r \in SeqSlots : LimiterIncrement(r)
    \/ \E r \in SeqSlots : LimiterDecide(r)
    \/ \E r \in SeqSlots : validateComment(r)
    \/ \E r \in SeqSlots : health(r)
    \/ \E r \in SeqSlots : populate(r)
    \/ \E r \in SeqSlots : populateFetched(r)
    \/ \E r \in SeqSlots : populateCreate(r)
    \/ \E r \in SeqSlots : createComment(r)
    \/ Quiet /\ Tick(MaxRateTicks)

SpecRate == Init /\ [][NextRate]_vars

(***************************************************************************)
(* The concurrent workload: bursts of requests of one address in flight    *)
(* together on two connections.                                            *)
(***************************************************************************)
BurstRequests ==
    { Request("GET /health", NoBody, <<>>),
      Request("POST /comment", TextBody(Hi), <<>>) }

NextBurst ==
    \/ \E r \in Slots, q \in BurstRequests :
          served < MaxBurst /\ Receive(r, "A", q)
    \/ \E r \in Slots : LimiterIncrement(r)
    \/ \E r \in Slots : LimiterDecide(r)
    \/ \E r \in Slots : validateComment(r)
    \/ \E r \in Slots : health(r)
    \/ \E r \in Slots : createComment(r)
    \/ Tick(MaxTicks)

SpecBurst == Init /\ [][NextBurst]_vars
(***************************************************************************)
(* What a request's trace and response say.                                *)
(***************************************************************************)
Has(rq, ev) == \E i \in 1..Len(rq.trace) : rq.trace[i] = ev

Times(rq, ev) == Cardinality({i \in 1..Len(rq.trace) : rq.trace[i] = ev})

Validators == {"validateUserId", "validateComment", "validateCommentId"}

\* the stages behind the gates: handlers, the sanitizer, the external fetch
\* and the persistence calls
Inner ==
    {"createComment", "getAllComments", "getCommentById", "deleteComment",
     "populate", "getUserIds", "getUserById", "xss", "axios.get",
     "Comment.create", "Comment.findAll", "Comment.findByPk", "comment.destroy",
     "User.create", "User.findAll", "User.findByPk"}

Stage(rq, names) == \E i \in 1..Len(rq.trace) : rq.trace[i][1] \in names

\* the text a POST /comment submits, when it submits one
Submitted(rq) == commentText(rq.q.body)

Accepted(v) ==
    /\ v.t = "string"
    /\ Len(trim(v.s)) >= 1
    /\ Len(trim(v.s)) <= MaxCommentLength

\* the text inside a value the validation error echoes (a field, or req.body)
EchoedText(v) ==
    IF "kind" \in DOMAIN v
    THEN IF v.kind = "text" THEN v.text
         ELSE IF v.comment.t = "string" THEN v.comment.s ELSE <<>>
    ELSE IF v.t = "string" THEN v.s ELSE <<>>

(***************************************************************************)
(* C1: for every POST /comment whose text t has 1 <= length(trim(t)) <=    *)
(* 1000, the content handed to Comment.create is sanitize(trim(t)).        *)
(* The controller hands the service the body as received, so the content   *)
(* is sanitize(t): the statement fails for a text with outer spaces.       *)
(***************************************************************************)
C1Original ==
    \A r \in Slots :
        (Has(req[r], <<"Comment.create", "call">>) /\ Accepted(Submitted(req[r])))
            => req[r].content = Str(xss(trim(Submitted(req[r]).s)))

(***************************************************************************)
(* C2: no response carries submitted text back in a form other than its    *)
(* sanitized form.  The 400 of a failed validation lists each error with   *)
(* the value as received, and a created record's content is the sanitized  *)
(* untrimmed body: the statement fails for a rejected value with markup.   *)
(***************************************************************************)
C2Original ==
    \A r \in Slots :
        /\ \A i \in 1..Len(req[r].resp.details) :
              EchoedText(req[r].resp.details[i].value)
                  = xss(EchoedText(req[r].resp.details[i].value))
        /\ (req[r].resp.status = 201 /\ Submitted(req[r]).t = "string")
              => req[r].resp.rows[1].content = xss(Submitted(req[r]).s)

(***************************************************************************)
(* Rate-limit claims share these readings of a request.                    *)
(***************************************************************************)
\* the limiters of the request's chain, in the order they are registered
ChainLimiters(rq) ==
    SelectSeq(AppChain(entry, rq.q.route), LAMBDA name : name \in Limiters)

Evaluated(rq, l) == Has(rq, <<l, "increment">>)

RejectedBy(rq, l) == Has(rq, <<l, "reject">>)

RateLimited(rq) == \E l \in Limiters : RejectedBy(rq, l)

TooMany(rq, l) ==
    /\ rq.pc = "done"
    /\ rq.resp.status = 429
    /\ rq.resp.success = "false"
    /\ rq.resp.error = limiterMessage(l)

(***************************************************************************)
(* C3, as the code has it: every limiter evaluated for a request raises    *)
(* its counter for the address by exactly one, whether the request is then *)
(* let pass or turned away (the count the store answers is the request's   *)
(* rank among all requests the limiter evaluated in the window); limiters  *)
(* are evaluated in the order registered, so the ones ahead of a rejecting *)
(* limiter have counted the attempt, and the ones behind it have not.      *)
(***************************************************************************)
C3Amended ==
    \A r \in Slots :
        LET rq == req[r]
            ls == ChainLimiters(rq)
        IN  /\ \A l \in Limiters : Times(rq, <<l, "increment">>) <= 1
            /\ (rq.pc = "decide") =>
                  rq.totalHits = rq.ordinal[Current(rq)]
            /\ \A i \in 1..Len(ls) :
                  /\ RejectedBy(rq, ls[i]) =>
                        /\ Evaluated(rq, ls[i])
                        /\ store[ls[i]][rq.client].totalHits >= rq.ordinal[ls[i]]
                              \/ rq.windowStart[ls[i]] + windowMs(ls[i]) <= now
                        /\ \A j \in 1..Len(ls) :
                              /\ j < i => Evaluated(rq, ls[j]) /\ Has(rq, <<ls[j], "pass">>)
                              /\ j > i => ~Evaluated(rq, ls[j])
                  /\ Evaluated(rq, ls[i]) =>
                        \A j \in 1..(i - 1) : Has(rq, <<ls[j], "pass">>)

\* a request the Write limiter turned away after the General limiter, and
\* the Write limiter itself, counted it
C3Witness ==
    \E r \in Slots :
        /\ RejectedBy(req[r], "writeLimiter")
        /\ Evaluated(req[r], "apiLimiter")
        /\ req[r].ordinal["writeLimiter"] = writeMax + 1
        /\ store["writeLimiter"][req[r].client].totalHits = writeMax + 1

\* C3 as stated: the attempt a limiter turns away increments no counter
C3Original ==
    \A r \in Slots :
        RateLimited(req[r]) => \A l \in Limiters : ~Evaluated(req[r], l)

(***************************************************************************)
(* C4: per limiter (window W, maximum M) and address, the first M requests *)
(* inside one window pass the limiter, the following ones inside the same  *)
(* window get the 429 with the limiter's message, and the first request    *)
(* after the window is over opens a new window and passes.                 *)
(***************************************************************************)
C4Windows ==
    \A r \in Slots : \A l \in Limiters :
        LET rq == req[r]
            decided == Has(rq, <<l, "pass">>) \/ RejectedBy(rq, l)
        IN  /\ (rq.pc = "decide" /\ Current(rq) = l) =>
                  /\ rq.totalHits = rq.ordinal[l]
                  /\ rq.resetTime = rq.windowStart[l] + windowMs(l)
            /\ Evaluated(rq, l) => rq.ordinal[l] >= 1
            /\ decided =>
                  /\ rq.ordinal[l] <= max(l) <=> Has(rq, <<l, "pass">>)
                  /\ rq.ordinal[l] > max(l) <=> RejectedBy(rq, l)
            /\ RejectedBy(rq, l) => TooMany(rq, l)

\* the first request of a window that follows one in which a request was
\* turned away: it has passed
C4Witness ==
    \E r \in Slots : \E l \in Limiters :
        /\ Has(req[r], <<l, "pass">>)
        /\ req[r].ordinal[l] = 1
        /\ req[r].windowStart[l] >= windowMs(l)
        /\ window[l][req[r].client].follows
        /\ window[l][req[r].client].start = req[r].windowStart[l]

(***************************************************************************)
(* C5, as the code has it: within one window of the populate limiter (the  *)
(* hour that starts with the first GET /populate counted when no window    *)
(* of the address is open) at most populateMax requests of the address     *)
(* reach userService.populateUsers; the later ones of that window get the  *)
(* 429 and cause no external fetch and no User creation.                   *)
(***************************************************************************)
CallsSince(times, start) == Len(SelectSeq(times, LAMBDA at : at >= start))

C5Amended ==
    /\ \A c \in Clients :
          LET w == window["populateLimiter"][c] IN
          /\ w.passed <= populateMax
          /\ w.n > 0 => CallsSince(populateTimes[c], w.start) <= populateMax
    /\ \A r \in Slots :
          LET rq == req[r] IN
          /\ Has(rq, <<"populate", "call">>) =>
                /\ Has(rq, <<"populateLimiter", "pass">>)
                /\ rq.ordinal["populateLimiter"] <= populateMax
          /\ (Evaluated(rq, "populateLimiter") /\ rq.pc \notin {"start", "decide"}
              /\ rq.ordinal["populateLimiter"] > populateMax) =>
                /\ TooMany(rq, "populateLimiter")
                /\ ~Stage(rq, {"populate", "axios.get", "User.create"})
                /\ rq.created = <<>>

\* a GET /populate turned away while the window holds its populateMax calls
C5Witness ==
    \E r \in Slots :
        /\ req[r].q.route = "GET /populate"
        /\ RejectedBy(req[r], "populateLimiter")
        /\ CallsSince(populateTimes[req[r].client],
                      window["populateLimiter"][req[r].client].start) = populateMax
        /\ window["populateLimiter"][req[r].client].n > populateMax

\* C5 as stated: in any hour, at most populateMax calls of populateUsers
\* (populateTimes holds the calls of the last hour)
C5Original ==
    \A c \in Clients : Len(populateTimes[c]) <= populateMax

(***************************************************************************)
(* C6, as the code has it: every limiter of a request's chain is evaluated *)
(* before its validator, its handler, the sanitizer, the external fetch    *)
(* and any persistence call, and a request a limiter turns away reaches    *)
(* none of them; but the CORS origin check and the body parsers run ahead  *)
(* of the limiters, and a request they reject is answered with no limiter  *)
(* evaluated.                                                              *)
(***************************************************************************)
Gate == {"cors", "bodyParser"}

C6Amended ==
    \A r \in Slots :
        LET rq == req[r] IN
        /\ \A i, j \in 1..Len(rq.trace) :
              (rq.trace[i][1] \in Limiters /\ rq.trace[j][1] \in Validators \cup Inner)
                  => i < j
        /\ \A i, j \in 1..Len(rq.trace) :
              (rq.trace[i][1] \in Gate /\ rq.trace[j][1] \in Limiters) => i < j
        /\ RateLimited(rq) =>
              /\ ~Stage(rq, Validators \cup Inner)
              /\ rq.pc = "done"
              /\ rq.trace[Len(rq.trace)][2] = "reject"
              /\ rq.trace[Len(rq.trace)][1] \in Limiters
        /\ (Has(rq, <<"cors", "reject">>) \/ Has(rq, <<"bodyParser", "reject">>)) =>
              /\ ~Stage(rq, Limiters \cup Validators \cup Inner)
              /\ rq.pc = "done"
              /\ rq.resp.status \in {500, 413}

\* a POST /comment the General limiter turned away: parsed, then answered
\* with no validator, sanitizer or persistence call
C6Witness ==
    \E r \in Slots :
        /\ req[r].q.route = "POST /comment"
        /\ RejectedBy(req[r], "apiLimiter")
        /\ Has(req[r], <<"bodyParser", "parse">>)
        /\ req[r].resp.status = 429

\* C6 as stated: no rejecting stage runs ahead of the limiters, so every
\* request that is turned away has had a limiter evaluated
C6Original ==
    \A r \in Slots :
        (Has(req[r], <<"cors", "reject">>) \/ Has(req[r], <<"bodyParser", "reject">>))
            => Stage(req[r], Limiters)

(***************************************************************************)
(* C7: once the validator of POST /user, POST /comment, GET /comments/:id  *)
(* or DELETE /comments/:id reports an error, the request ends with the 400 *)
(* and its errors; no sanitizer, handler or persistence call is made for   *)
(* it, and the step that rejects it leaves the tables as they are.         *)
(***************************************************************************)
Invalid(rq) == \E v \in Validators : Has(rq, <<v, "reject">>)

C7ShortCircuit ==
    \A r \in Slots :
        LET rq == req[r] IN
        Invalid(rq) =>
            /\ rq.pc = "done"
            /\ rq.resp.status = 400
            /\ rq.resp.success = "false"
            /\ rq.resp.error = "Validation failed"
            /\ rq.resp.details # <<>>
            /\ rq.trace[Len(rq.trace)][1] \in Validators
            /\ rq.trace[Len(rq.trace)][2] = "reject"
            /\ ~Stage(rq, Inner)
            /\ rq.content = Undefined
            /\ rq.found = <<>>
            /\ rq.created = <<>>
            /\ rq.q.route \in {"POST /user", "POST /comment", "GET /comments/:id",
                               "DELETE /comments/:id"}

C7TablesKept ==
    \A r \in Slots :
        (~Invalid(req[r]) /\ Invalid(req'[r])) =>
            /\ comments' = comments
            /\ users' = users
            /\ nextCommentId' = nextCommentId
            /\ nextUserId' = nextUserId

C7Theorem == []C7ShortCircuit /\ [][C7TablesKept]_vars

\* a comment is stored, and a POST /comment with an invalid text has been
\* answered 400
C7Witness ==
    \E r \in Slots :
        /\ Has(req[r], <<"validateComment", "reject">>)
        /\ req[r].resp.status = 400
        /\ comments # {}

(***************************************************************************)
(* C8: every request is counted by the General limiter, POST /comment and  *)
(* DELETE /comments/:id by the Write limiter too, GET /populate by the     *)
(* populate limiter too.  src/backend/src/server.js registers no General   *)
(* limiter: started from it, no request is counted by one.                 *)
(***************************************************************************)
C8Original ==
    \A r \in Slots :
        LET rq == req[r] IN
        (rq.pc = "done" /\ Has(rq, <<"bodyParser", "parse">>)) =>
            /\ Evaluated(rq, "apiLimiter")
            /\ (rq.q.route \in {"POST /comment", "DELETE /comments/:id"}
                /\ ~RejectedBy(rq, "apiLimiter")) => Evaluated(rq, "writeLimiter")
            /\ (rq.q.route = "GET /populate" /\ ~RejectedBy(rq, "apiLimiter"))
                  => Evaluated(rq, "populateLimiter")

(***************************************************************************)
(* C9: increments are atomic per key.  Of the requests of one address in   *)
(* flight together at one limiter, each holds a count of its own (no       *)
(* increment is lost: the store's count is the number of requests the      *)
(* window has seen), and no window lets more than its maximum pass.        *)
(***************************************************************************)
C9Atomic ==
    /\ \A l \in Limiters : \A c \in Clients :
          /\ window[l][c].passed <= max(l)
          /\ store[l][c].totalHits = window[l][c].n
    /\ \A r1, r2 \in Slots :
          (/\ r1 # r2
           /\ req[r1].pc = "decide" /\ req[r2].pc = "decide"
           /\ Current(req[r1]) = Current(req[r2])
           /\ req[r1].client = req[r2].client
           /\ req[r1].resetTime = req[r2].resetTime)
              => req[r1].totalHits # req[r2].totalHits

\* two requests of one address between increment and decision at the Write
\* limiter, holding the counts writeMax and writeMax + 1
C9Witness ==
    \E r1, r2 \in Slots :
        /\ req[r1].pc = "decide" /\ req[r2].pc = "decide"
        /\ Current(req[r1]) = "writeLimiter" /\ Current(req[r2]) = "writeLimiter"
        /\ req[r1].client = req[r2].client
        /\ req[r1].totalHits = writeMax
        /\ req[r2].totalHits = writeMax + 1

(***************************************************************************)
(* C10: every POST /comment that passes the limiters and the validator,    *)
(* and whose Comment.create does not fail for storage reasons, ends with   *)
(* the 201 and the created record.  A text of markup only passes the       *)
(* validator, is emptied by the sanitizer and then fails the model's own   *)
(* notEmpty / len constraint: the request ends with a 500.                 *)
(***************************************************************************)
C10Original ==
    \A r \in Slots :
        LET rq == req[r] IN
        (/\ rq.q.route = "POST /comment"
         /\ rq.pc = "done"
         /\ Has(rq, <<"validateComment", "pass">>)
         /\ ~Has(rq, <<"Comment.create", "fail">>)) =>
            /\ rq.resp.status = 201
            /\ rq.resp.success = "true"
            /\ Len(rq.resp.rows) = 1
            /\ rq.resp.rows[1].content = rq.content.s

(***************************************************************************)
(* C11: every stored Comment has a content of 1 to 1000 characters, with   *)
(* no leading or trailing whitespace and no markup.  The stored content is *)
(* the sanitized body as received, not the trimmed text: a body with outer *)
(* spaces is stored with them.                                             *)
(***************************************************************************)
NoMarkup(chars) == \A i \in 1..Len(chars) : chars[i] \notin {"<", ">"}

C11Original ==
    \A row \in comments :
        /\ Len(row.content) >= 1
        /\ Len(row.content) <= MaxCommentLength
        /\ trim(row.content) = row.content
        /\ NoMarkup(row.content)

(***************************************************************************)
(* The comment-text workload: one POST /comment whose payload is any text  *)
(* made of up to MaxTokens pieces (tags, lone punctuation, a letter, a     *)
(* space), a text at the validator's length limit, or no text at all.      *)
(***************************************************************************)
MaxTokens == 4

Tokens ==
    { <<"<", "s", "c", "r", "i", "p", "t", ">">>,
      <<"<", "/", "s", "c", "r", "i", "p", "t", ">">>,
      <<"<", "s", "t", "y", "l", "e", ">">>,
      <<"<", "/", "s", "t", "y", "l", "e", ">">>,
      <<"<">>, <<">">>, <<"&">>, <<"a">>, <<" ">> }

RECURSIVE Concat(_)
Concat(pieces) ==
    IF pieces = <<>> THEN <<>> ELSE Head(pieces) \o Concat(Tail(pieces))

TokenTexts ==
    {Concat(pieces) : pieces \in UNION {[1..n -> Tokens] : n \in 1..MaxTokens}}

Letters(n) == [i \in 1..n |-> "a"]

TextRequests ==
    {Request("POST /comment", TextBody(t), <<>>) : t \in TokenTexts}
    \cup
    { Request("POST /comment", TextBody(ScriptHello), <<>>),
      Request("POST /comment", TextBody(Letters(MaxCommentLength)), <<>>),
      Request("POST /comment",
              TextBody(<<" ">> \o Letters(MaxCommentLength) \o <<" ">>), <<>>),
      Request("POST /comment", TextBody(Letters(MaxCommentLength + 1)), <<>>),
      Request("POST /comment", JsonBody(Str(Hi), Undefined), <<>>),
      Request("POST /comment", JsonBody(Str(<<" ">>), Undefined), <<>>),
      Request("POST /comment", JsonBody(Num(5), Undefined), <<>>),
      Request("POST /comment", NoBody, <<>>) }

NextText ==
    \/ served = 0 /\ \E q \in TextRequests : Receive("r1", "A", q)
    \/ LimiterIncrement("r1")
    \/ LimiterDecide("r1")
    \/ validateComment("r1")
    \/ createComment("r1")

SpecText == Init /\ [][NextText]_vars

(***************************************************************************)
(* C12: comment validation decides on the trimmed length of the extracted  *)
(* text only: length 0 is rejected with "cannot be empty", length 1 to     *)
(* 1000 is accepted (1000 included, whatever the untrimmed length), length *)
(* 1001 or more is rejected citing the length limit, and a payload that is *)
(* neither a string nor an object with a string comment is rejected with   *)
(* "required"; every rejection is a 400.                                   *)
(***************************************************************************)
Messages(rq) == {rq.resp.details[i].msg : i \in 1..Len(rq.resp.details)}

C12Validation ==
    \A r \in Slots :
        LET rq == req[r]
            t == Submitted(rq)
            passed == Has(rq, <<"validateComment", "pass">>)
            failed == Has(rq, <<"validateComment", "reject">>)
        IN  (passed \/ failed) =>
              /\ passed <=> (t.t = "string" /\ Len(trim(t.s)) >= 1
                             /\ Len(trim(t.s)) <= MaxCommentLength)
              /\ failed => rq.resp.status = 400
              /\ (t.t = "string" /\ Len(trim(t.s)) = 0) =>
                    "Comment cannot be empty" \in Messages(rq)
              /\ (t.t = "string" /\ Len(trim(t.s)) > MaxCommentLength) =>
                    "Comment must be less than 1000 characters" \in Messages(rq)
              /\ t.t # "string" => "Comment text is required" \in Messages(rq)

\* a text longer than the maximum as received, of exactly the maximum once
\* trimmed, has passed the validator
C12Witness ==
    \E r \in Slots :
        /\ Has(req[r], <<"validateComment", "pass">>)
        /\ Submitted(req[r]).t = "string"
        /\ Len(Submitted(req[r]).s) > MaxCommentLength
        /\ Len(trim(Submitted(req[r]).s)) = MaxCommentLength

(***************************************************************************)
(* The identifier workload: one request of a route that validates an       *)
(* identifier, carrying any string of up to MaxIdLen characters, a native  *)
(* integer from -1 to MaxId, or (POST /user) no userId.                    *)
(***************************************************************************)
MaxIdLen == 2
MaxId == 3

IdChars == {"0", "1", "2", "-", "+", "a", " "}

IdStrings ==
    UNION {[1..n -> IdChars] : n \in 1..MaxIdLen}
    \cup { <<"a", "b", "c">>, <<"1", " ", "O", "R", " ", "1", "=", "1">> }

IdRequests ==
    {Request("POST /user", JsonBody(Undefined, Str(id)), <<>>) : id \in IdStrings}
    \cup {Request("POST /user", JsonBody(Undefined, Num(n)), <<>>) : n \in -1..MaxId}
    \cup {Request("POST /user", NoBody, <<>>)}
    \cup {Request("GET /comments/:id", NoBody, id) : id \in IdStrings}
    \cup {Request("DELETE /comments/:id", NoBody, id) : id \in IdStrings}

NextId ==
    \/ served = 0 /\ \E q \in IdRequests : Receive("r1", "A", q)
    \/ LimiterIncrement("r1")
    \/ LimiterDecide("r1")
    \/ validateUserId("r1")
    \/ validateCommentId("r1")
    \/ getUserById("r1")
    \/ getCommentById("r1")
    \/ deleteComment("r1")

SpecId == Init /\ [][NextId]_vars

(***************************************************************************)
(* C13: an identifier (userId of POST /user, :id of GET and DELETE         *)
(* /comments/:id) that is an integer n >= 1, native or as the numeric      *)
(* string that represents it exactly, passes validation and the handler    *)
(* receives n; an integer n <= 0 and every non-numeric input get a 400     *)
(* whose details mention "positive integer", and the handler is not        *)
(* reached.                                                                *)
(***************************************************************************)
\* the identifier the request carries
Identifier(rq) ==
    IF rq.q.route = "POST /user" THEN rq.q.body.userId ELSE Str(rq.q.id)

AllDigits(chars) == chars # <<>> /\ \A i \in 1..Len(chars) : IsDigit(chars[i])

\* the decimal numeral of an integer >= 1, without sign or leading zero
Numeral(chars) == AllDigits(chars) /\ chars[1] # "0"

PositiveId(v) == (v.t = "number" /\ v.n >= 1) \/ (v.t = "string" /\ Numeral(v.s))

IdValue(v) == IF v.t = "number" THEN v.n ELSE DigitsToNat(v.s)

\* an integer n <= 0 (natively, or as its numeral), or nothing numeric
NotPositiveId(v) ==
    \/ v.t = "undefined"
    \/ (v.t = "number" /\ v.n <= 0)
    \/ /\ v.t = "string"
       /\ \/ v.s = <<"0">>
          \/ (Len(v.s) >= 2 /\ v.s[1] = "-" /\ AllDigits(Tail(v.s)))
          \/ ~AllDigits(IF v.s # <<>> /\ v.s[1] \in {"-", "+"} THEN Tail(v.s) ELSE v.s)

IdValidators == {"validateUserId", "validateCommentId"}

C13Identifiers ==
    \A r \in Slots :
        LET rq == req[r]
            v == Identifier(rq)
            passed == \E w \in IdValidators : Has(rq, <<w, "pass">>)
            failed == \E w \in IdValidators : Has(rq, <<w, "reject">>)
        IN  (passed \/ failed) =>
              /\ PositiveId(v) => passed /\ rq.intArg = IdValue(v)
              /\ NotPositiveId(v) =>
                    /\ failed
                    /\ rq.resp.status = 400
                    /\ \E m \in Messages(rq) :
                          m \in {"userId must be a positive integer",
                                 "Comment ID must be a positive integer"}
                    /\ ~Stage(rq, Inner)
              /\ (passed /\ rq.pc = "done") =>
                    Stage(rq, {"getUserById", "getCommentById", "deleteComment"})

\* the handler of POST /user has been called with 12 for the userId "12"
C13Witness ==
    \E r \in Slots :
        /\ req[r].q.route = "POST /user"
        /\ req[r].q.body.userId = Str(<<"1", "2">>)
        /\ Has(req[r], <<"getUserById", "call">>)
        /\ req[r].intArg = 12

(***************************************************************************)
(* C14: the details of a validation failure list every constraint the      *)
(* request violates, once each, and no other: for an identifier "required" *)
(* (it is missing) and "positive integer" (it is not an integer >= 1, as a *)
(* missing one is not); for a comment "required" (no text in the payload), *)
(* "cannot be empty" (no text, or none left after trimming) and the length *)
(* limit (more than 1000 characters after trimming).                       *)
(***************************************************************************)
ViolatedById(v, required, positive) ==
    (IF v.t = "undefined" THEN {required} ELSE {})
    \cup (IF ~PositiveId(v) THEN {positive} ELSE {})

ViolatedByComment(t) ==
    (IF t.t # "string" THEN {"Comment text is required"} ELSE {})
    \cup (IF t.t # "string" \/ Len(trim(t.s)) = 0
          THEN {"Comment cannot be empty"} ELSE {})
    \cup (IF t.t = "string" /\ Len(trim(t.s)) > MaxCommentLength
          THEN {"Comment must be less than 1000 characters"} ELSE {})

Violated(rq) ==
    IF rq.q.route = "POST /user"
    THEN ViolatedById(Identifier(rq), "userId is required",
                      "userId must be a positive integer")
    ELSE IF rq.q.route = "POST /comment"
    THEN ViolatedByComment(Submitted(rq))
    ELSE ViolatedById(Identifier(rq), "Comment ID is required",
                      "Comment ID must be a positive integer")

C14Details ==
    \A r \in Slots :
        LET rq == req[r] IN
        /\ Invalid(rq) =>
              /\ Messages(rq) = Violated(rq)
              /\ Len(rq.resp.details) = Cardinality(Violated(rq))
        /\ (\E w \in Validators : Has(rq, <<w, "pass">>)) => Violated(rq) = {}

\* a POST /user without userId has been answered with both of its errors
C14Witness ==
    \E r \in Slots :
        /\ req[r].q.route = "POST /user"
        /\ req[r].q.body.userId = Undefined
        /\ req[r].resp.status = 400
        /\ Len(req[r].resp.details) = 2

(***************************************************************************)
(* C15: for every text prefix + <script> + body + </script> + suffix (and  *)
(* likewise style) the sanitizer's output has neither the tags nor the     *)
(* body nor a replacement marker and keeps prefix and suffix (taken here   *)
(* without "<" or ">", the body ending at the first closing tag).  When    *)
(* the opening tag starts the text and the body holds another opening tag, *)
(* the output keeps the marker "[removed]" and the body text before the    *)
(* inner tag.                                                              *)
(***************************************************************************)
OpenTag(name) == <<"<">> \o name \o <<">">>

CloseTag(name) == <<"<", "/">> \o name \o <<">">>

\* pat stands in text from the 1-based index i on
Occurs(text, i, pat) ==
    i + Len(pat) - 1 <= Len(text) /\ SubSeq(text, i, i + Len(pat) - 1) = pat

C15Original ==
    \A r \in Slots :
        LET rq == req[r]
            t == rq.q.body.text
        IN  (rq.q.body.kind = "text" /\ Has(rq, <<"xss", "call">>)) =>
              \A name \in stripIgnoreTagBody : \A i, j \in 1..Len(t) :
                 LET prefix == SubSeq(t, 1, i - 1)
                     suffix == SubSeq(t, j + Len(CloseTag(name)), Len(t))
                 IN  (/\ Occurs(t, i, OpenTag(name))
                      /\ Occurs(t, j, CloseTag(name))
                      /\ j >= i + Len(OpenTag(name))
                      /\ \A k \in (i + 1)..(j - 1) : ~Occurs(t, k, CloseTag(name))
                      /\ NoMarkup(prefix) /\ NoMarkup(suffix)) =>
                        /\ rq.content.s = prefix \o suffix
                        /\ rq.resp.status = 201 =>
                              rq.resp.rows[1].content = prefix \o suffix

(***************************************************************************)
(* C16: sanitization is idempotent: the content createComment computes     *)
(* from a text is a fixed point of the same transform,                     *)
(* xss(xss(t)) = xss(t).                                                   *)
(***************************************************************************)
C16Idempotent ==
    \A r \in Slots :
        Has(req[r], <<"xss", "call">>) =>
            xss(req[r].content.s) = req[r].content.s

\* a text with markup was sanitized to a different, non-empty text
C16Witness ==
    \E r \in Slots :
        /\ Has(req[r], <<"xss", "call">>)
        /\ req[r].q.body.kind = "text"
        /\ ~NoMarkup(req[r].q.body.text)
        /\ req[r].content.s # req[r].q.body.text
        /\ req[r].content.s # <<>>

(***************************************************************************)
(* C17: the sanitizer keeps plain text character for character: a text     *)
(* holding no tag (here: no "<" at all, so that nothing can open a tag)    *)
(* comes out equal to the input.  A lone ">" comes out as "&gt;".          *)
(***************************************************************************)
C17Original ==
    \A r \in Slots :
        LET rq == req[r]
        IN  (/\ Has(rq, <<"xss", "call">>)
             /\ rq.q.body.kind = "text"
             /\ \A i \in 1..Len(rq.q.body.text) : rq.q.body.text[i] # "<") =>
                rq.content.s = rq.q.body.text

(***************************************************************************)
(* C18: a failing persistence call of any operation is caught by the       *)
(* handler and answered with 5xx, success false and the handler's generic  *)
(* message; the response carries neither the error thrown nor any detail   *)
(* or row.                                                                 *)
(***************************************************************************)
PersistenceCalls ==
    {"Comment.create", "Comment.findAll", "Comment.findByPk", "comment.destroy",
     "User.create", "User.findAll", "User.findByPk"}

PersistenceFailed(rq) ==
    \/ \E call \in PersistenceCalls : Has(rq, <<call, "fail">>)
    \/ Has(rq, <<"Comment.create", "invalid">>)

GenericMessages ==
    {"Failed to create comment", "Failed to fetch comments", "Failed to fetch comment",
     "Failed to delete comment", "Failed to populate users", "Failed to fetch users",
     "Failed to fetch user"}

C18Caught ==
    \A r \in Slots :
        PersistenceFailed(req[r]) =>
            /\ req[r].pc = "done"
            /\ req[r].thrown # ""
            /\ req[r].resp.status \in 500..599
            /\ req[r].resp.success = "false"
            /\ req[r].resp.error \in GenericMessages
            /\ req[r].resp.error # req[r].thrown
            /\ req[r].resp.message = ""
            /\ req[r].resp.details = <<>>
            /\ req[r].resp.rows = <<>>

\* comment.destroy() failed after the comment was found, and was answered
C18Witness ==
    \E r \in Slots :
        /\ Has(req[r], <<"comment.destroy", "fail">>)
        /\ req[r].thrown = "SequelizeDatabaseError"
        /\ req[r].resp.status = 500

(***************************************************************************)
(* The workload of termination: requests on one connection, the server's   *)
(* own steps taken whenever they can be (the event loop runs every ready   *)
(* callback), while nothing obliges randomuser.me to answer.               *)
(***************************************************************************)
LiveRequests ==
    { Request("GET /populate", NoBody, <<>>),
      Request("GET /users", NoBody, <<>>),
      Request("GET /health", NoBody, <<>>) }

ServerStep ==
    \/ LimiterIncrement("r1")
    \/ LimiterDecide("r1")
    \/ health("r1")
    \/ populate("r1")
    \/ populateCreate("r1")
    \/ getUserIds("r1")

NextLive ==
    \/ \E q \in LiveRequests : served < MaxRequests /\ Receive("r1", "A", q)
    \/ ServerStep
    \/ populateFetched("r1")

SpecLive == Init /\ [][NextLive]_vars /\ WF_vars(ServerStep)

(***************************************************************************)
(* C19: every request received is eventually answered, also when the       *)
(* external fetch never answers.  GET /populate stays at  await            *)
(* axios.get(...)  for ever when randomuser.me does not answer.            *)
(***************************************************************************)
C19Original ==
    \A r \in SeqSlots :
        (req[r].pc \notin {"idle", "done"}) ~> (req[r].pc = "done")

(***************************************************************************)
(* The workload of deletion: comments are created and deleted and users    *)
(* populated by two addresses, request after request.                      *)
(***************************************************************************)
MaxDeleteRequests == 4

DeleteRequests ==
    { Request("POST /comment", TextBody(Hi), <<>>),
      Request("GET /populate", NoBody, <<>>) }
    \cup {Request("DELETE /comments/:id", NoBody, NatToDigits(n)) : n \in 1..MaxId}

NextDelete ==
    \/ \E r \in SeqSlots, c \in Clients, q \in DeleteRequests :
          served < MaxDeleteRequests /\ Receive(r, c, q)
    \/ \E r \in SeqSlots : LimiterIncrement(r)
    \/ \E r \in SeqSlots : LimiterDecide(r)
    \/ \E r \in SeqSlots : validateComment(r)
    \/ \E r \in SeqSlots : validateCommentId(r)
    \/ \E r \in SeqSlots : createComment(r)
    \/ \E r \in SeqSlots : deleteComment(r)
    \/ \E r \in SeqSlots : deleteCommentDestroy(r)
    \/ \E r \in SeqSlots : populate(r)
    \/ \E r \in SeqSlots : populateFetched(r)
    \/ \E r \in SeqSlots : populateCreate(r)

SpecDelete == Init /\ [][NextDelete]_vars

(***************************************************************************)
(* C20: DELETE /comments/:id with a valid identifier, the persistence      *)
(* calls answering: when the lookup finds no comment with the identifier   *)
(* the response is 404 and no table changes; when it finds one the         *)
(* response confirms success, the comment is absent from then on, and      *)
(* every other comment and every user is as before.                        *)
(***************************************************************************)
IsDelete(rq) == rq.q.route = "DELETE /comments/:id"

\* the step in which Comment.findByPk answers
C20Lookup(r) ==
    (/\ IsDelete(req[r])
     /\ At(r, "deleteComment")
     /\ Has(req'[r], <<"Comment.findByPk", "ok">>)) =>
        /\ comments' = comments
        /\ users' = users
        /\ IF findByPk(comments, req[r].intArg) = {}
           THEN /\ req'[r].pc = "done"
                /\ req'[r].resp.status = 404
                /\ req'[r].resp.success = "false"
           ELSE req'[r].pc = "destroy"

\* the step in which comment.destroy() answers
C20Destroy(r) ==
    (/\ IsDelete(req[r])
     /\ req[r].pc = "destroy"
     /\ Has(req'[r], <<"comment.destroy", "ok">>)) =>
        /\ req'[r].pc = "done"
        /\ req'[r].resp.status = 200
        /\ req'[r].resp.success = "true"
        /\ comments' = {row \in comments : row.id # req[r].intArg}
        /\ users' = users

C20Absent ==
    \A r \in Slots :
        (IsDelete(req[r]) /\ req[r].resp.success = "true") =>
            /\ Has(req[r], <<"comment.destroy", "ok">>)
            /\ findByPk(comments, req[r].intArg) = {}

C20Delete ==
    /\ []C20Absent
    /\ [][\A r \in Slots : C20Lookup(r) /\ C20Destroy(r)]_vars

\* a comment was deleted while another comment and the users stayed
C20Witness ==
    \E r \in Slots :
        /\ IsDelete(req[r])
        /\ req[r].resp.success = "true"
        /\ req[r].resp.status = 200
        /\ comments # {}
        /\ users # {}

(***************************************************************************)
(* C21: when the external fetch of GET /populate fails the operation fails *)
(* as a whole: the request creates no user, the tables of the step are     *)
(* left as they were, and the response is a 5xx with success false.        *)
(***************************************************************************)
C21FetchFailed ==
    \A r \in Slots :
        Has(req[r], <<"axios.get", "fail">>) =>
            /\ req[r].pc = "done"
            /\ req[r].resp.status \in 500..599
            /\ req[r].resp.success = "false"
            /\ req[r].resp.rows = <<>>
            /\ req[r].created = <<>>
            /\ ~Has(req[r], <<"User.create", "ok">>)

C21UsersKept ==
    \A r \in Slots :
        (req[r].pc = "fetching" /\ Has(req'[r], <<"axios.get", "fail">>)) =>
            /\ users' = users
            /\ nextUserId' = nextUserId
            /\ comments' = comments

C21Theorem == []C21FetchFailed /\ [][C21UsersKept]_vars

\* the fetch failed while the users of an earlier populate are stored
C21Witness ==
    \E r \in Slots :
        /\ Has(req[r], <<"axios.get", "fail">>)
        /\ req[r].resp.status = 500
        /\ Cardinality(users) = PopulateResults

(***************************************************************************)
(* C22: a successful GET /populate has created exactly 3 users, the i-th   *)
(* from the i-th candidate received (first name, last name, email, age),   *)
(* and returns exactly these users, with the identifiers the storage gave  *)
(* them, in the order of creation.                                         *)
(***************************************************************************)
IsPopulate(rq) == rq.q.route = "GET /populate"

C22Populated ==
    \A r \in Slots :
        LET rq == req[r]
            rows == rq.resp.rows
        IN  (IsPopulate(rq) /\ rq.resp.success = "true") =>
              /\ rq.resp.status = 200
              /\ Times(rq, <<"User.create", "ok">>) = PopulateResults
              /\ Len(rows) = PopulateResults
              /\ rows = rq.created
              /\ \A i \in 1..Len(rows) :
                    /\ rows[i].firstName = Candidates[i].first
                    /\ rows[i].lastName = Candidates[i].last
                    /\ rows[i].email = Candidates[i].email
                    /\ rows[i].age = Candidates[i].age
                    /\ rows[i] \in users
                    /\ rows[i].id >= 1
              /\ \A i, j \in 1..Len(rows) : i < j => rows[i].id < rows[j].id

\* each creation adds one user with the next identifier of the storage
C22OneEach ==
    \A r \in Slots :
        (req[r].pc = "creating" /\ Has(req'[r], <<"User.create", "ok">>)
         /\ Len(req'[r].created) = Len(req[r].created) + 1) =>
            /\ Cardinality(users') = Cardinality(users) + 1
            /\ users \subseteq users'
            /\ comments' = comments

C22Theorem == []C22Populated /\ [][C22OneEach]_vars

\* a second populate succeeded: its users have the identifiers 4, 5, 6
C22Witness ==
    \E r \in Slots :
        /\ IsPopulate(req[r])
        /\ req[r].resp.success = "true"
        /\ req[r].resp.rows[1].id = PopulateResults + 1
        /\ Cardinality(users) = 2 * PopulateResults

(***************************************************************************)
(* The workload of lookups: users are populated (wholly or in part),       *)
(* comments created and deleted, and users and comments looked up by       *)
(* identifiers that are stored, not stored, or not identifiers.            *)
(***************************************************************************)
MaxLookupRequests == 3

LookupRequests ==
    { Request("POST /comment", TextBody(Hi), <<>>),
      Request("GET /populate", NoBody, <<>>),
      Request("DELETE /comments/:id", NoBody, <<"1">>),
      Request("POST /user", JsonBody(Undefined, Str(<<"0">>)), <<>>),
      Request("POST /user", NoBody, <<>>),
      Request("GET /comments/:id", NoBody, <<"a">>) }
    \cup {Request("POST /user", JsonBody(Undefined, Num(n)), <<>>) : n \in 1..MaxId}
    \cup {Request("POST /user", JsonBody(Undefined, Str(NatToDigits(n))), <<>>) : n \in 1..MaxId}
    \cup {Request("GET /comments/:id", NoBody, NatToDigits(n)) : n \in 1..MaxId}

NextLookup ==
    \/ \E r \in SeqSlots, q \in LookupRequests :
          served < MaxLookupRequests /\ Receive(r, "A", q)
    \/ \E r \in SeqSlots : LimiterIncrement(r)
    \/ \E r \in SeqSlots : LimiterDecide(r)
    \/ \E r \in SeqSlots : validateUserId(r)
    \/ \E r \in SeqSlots : validateComment(r)
    \/ \E r \in SeqSlots : validateCommentId(r)
    \/ \E r \in SeqSlots : createComment(r)
    \/ \E r \in SeqSlots : deleteComment(r)
    \/ \E r \in SeqSlots : deleteCommentDestroy(r)
    \/ \E r \in SeqSlots : populate(r)
    \/ \E r \in SeqSlots : populateFetched(r)
    \/ \E r \in SeqSlots : populateCreate(r)
    \/ \E r \in SeqSlots : getUserById(r)
    \/ \E r \in SeqSlots : getCommentById(r)

SpecLookup == Init /\ [][NextLookup]_vars

(***************************************************************************)
(* C23: a lookup by identifier (POST /user, GET /comments/:id) that passed *)
(* validation is answered 404 with success false exactly when the table    *)
(* holds no record of the identifier, and otherwise 200 with the stored    *)
(* record; a failing persistence call is the only source of another        *)
(* status.                                                                 *)
(***************************************************************************)
IsLookup(rq) == rq.q.route \in {"POST /user", "GET /comments/:id"}

TableOf(rq) == IF rq.q.route = "POST /user" THEN users ELSE comments

\* the step in which the handler of a lookup answers
C23Lookup ==
    \A r \in Slots :
        (/\ At(r, "getUserById") \/ At(r, "getCommentById")
         /\ req'[r].pc = "done"
         /\ ~PersistenceFailed(req'[r])) =>
            LET stored == {row \in TableOf(req[r]) : row.id = IdValue(Identifier(req[r]))}
                resp == req'[r].resp
            IN  /\ users' = users
                /\ comments' = comments
                /\ IF stored = {}
                   THEN resp.status = 404 /\ resp.success = "false" /\ resp.rows = <<>>
                   ELSE /\ resp.status = 200
                        /\ resp.success = "true"
                        /\ Len(resp.rows) = 1
                        /\ {resp.rows[1]} = stored

C23Statuses ==
    \A r \in Slots :
        LET rq == req[r]
        IN  (/\ IsLookup(rq)
             /\ \E w \in IdValidators : Has(rq, <<w, "pass">>)
             /\ rq.pc = "done") =>
                \/ rq.resp.status \in {200, 404}
                \/ PersistenceFailed(rq) /\ rq.resp.status = 500

C23Theorem == []C23Statuses /\ [][C23Lookup]_vars

\* the second of two stored users was found and returned
C23Witness ==
    \E r \in Slots :
        /\ req[r].q.route = "POST /user"
        /\ req[r].resp.status = 200
        /\ Len(req[r].resp.rows) = 1
        /\ req[r].resp.rows[1].id = 2
        /\ Cardinality(users) = 2

(***************************************************************************)
(* C24: every response of every route carries a boolean success field,     *)
(* and every failure carries success false with a string error.  The       *)
(* response of GET /health is { status, message }: it has no success       *)
(* field.                                                                  *)
(***************************************************************************)
C24Original ==
    \A r \in Slots :
        req[r].pc = "done" =>
            /\ req[r].resp.success \in {"true", "false"}
            /\ req[r].resp.status >= 400 =>
                  req[r].resp.success = "false" /\ req[r].resp.error # ""

(***************************************************************************)
(* The workload of the retired endpoint: POST /query with several          *)
(* payloads, origins and sizes, among comments being created, until the    *)
(* general limiter is exhausted.                                           *)
(***************************************************************************)
QueryRequests ==
    { Request("POST /query", NoBody, <<>>),
      Request("POST /query", TextBody(Hi), <<>>),
      Request("POST /query", JsonBody(Str(Hi), Num(1)), <<>>),
      [Request("POST /query", TextBody(Hi), <<>>) EXCEPT !.origin = "http://evil.example"],
      [Request("POST /query", TextBody(Hi), <<>>) EXCEPT !.contentLength = 200000],
      Request("POST /comment", TextBody(Hi), <<>>) }

NextQuery ==
    \/ \E r \in SeqSlots, q \in QueryRequests :
          served < MaxBurst /\ Receive(r, "A", q)
    \/ \E r \in SeqSlots : LimiterIncrement(r)
    \/ \E r \in SeqSlots : LimiterDecide(r)
    \/ \E r \in SeqSlots : validateComment(r)
    \/ \E r \in SeqSlots : createComment(r)
    \/ \E r \in SeqSlots : query(r)

SpecQuery == Init /\ [][NextQuery]_vars

(***************************************************************************)
(* C25: POST /query never touches the persistence store, and it is         *)
(* answered 410 with success false whenever it reaches the router: the     *)
(* origin check, the body parsers and the general limiter stand before the *)
(* router and answer 500, 413 or 429 themselves.                           *)
(***************************************************************************)
IsQuery(rq) == rq.q.route = "POST /query"

StoppedAhead(rq) ==
    \/ Has(rq, <<"cors", "reject">>)
    \/ Has(rq, <<"bodyParser", "reject">>)
    \/ RejectedBy(rq, "apiLimiter")

C25Gone ==
    \A r \in Slots :
        (IsQuery(req[r]) /\ req[r].pc = "done") =>
            /\ req[r].resp.success = "false"
            /\ req[r].resp.rows = <<>>
            /\ ~Stage(req[r], Inner \cup Validators)
            /\ IF StoppedAhead(req[r])
               THEN req[r].resp.status \in {500, 413, 429}
               ELSE req[r].resp.status = 410

\* no step of a POST /query changes a table
C25StoreKept ==
    \A r \in Slots :
        (IsQuery(req[r]) /\ req'[r] # req[r] /\ IsQuery(req'[r])) =>
            /\ users' = users
            /\ comments' = comments
            /\ nextUserId' = nextUserId
            /\ nextCommentId' = nextCommentId

C25Amended == []C25Gone /\ [][C25StoreKept]_vars

\* POST /query answered 410 while a comment is stored and hits are counted
C25Witness ==
    \E r \in Slots :
        /\ IsQuery(req[r])
        /\ req[r].resp.status = 410
        /\ comments # {}
        /\ store["apiLimiter"]["A"].totalHits >= 2

C25Original ==
    \A r \in Slots :
        (IsQuery(req[r]) /\ req[r].pc = "done") =>
            req[r].resp.status = 410 /\ req[r].resp.success = "false"

(***************************************************************************)
(* The workload of repeated reads: one client first creates a comment or   *)
(* populates users, then only looks identifiers up, one request after the  *)
(* other, over two connections, so that two answers can be held together.  *)
(***************************************************************************)
ReadWrites ==
    { Request("POST /comment", TextBody(Hi), <<>>),
      Request("GET /populate", NoBody, <<>>) }

ReadLookups ==
    {Request("POST /user", JsonBody(Undefined, Num(n)), <<>>) : n \in 1..2}
    \cup {Request("GET /comments/:id", NoBody, NatToDigits(n)) : n \in 1..2}

NextRead ==
    \/ \E r \in Slots, q \in ReadWrites : served = 0 /\ Receive(r, "A", q)
    \/ \E r \in Slots, q \in ReadLookups :
          served >= 1 /\ served < MaxBurst /\ Quiet /\ Receive(r, "A", q)
    \/ \E r \in Slots : LimiterIncrement(r)
    \/ \E r \in Slots : LimiterDecide(r)
    \/ \E r \in Slots : validateUserId(r)
    \/ \E r \in Slots : validateComment(r)
    \/ \E r \in Slots : validateCommentId(r)
    \/ \E r \in Slots : createComment(r)
    \/ \E r \in Slots : populate(r)
    \/ \E r \in Slots : populateFetched(r)
    \/ \E r \in Slots : populateCreate(r)
    \/ \E r \in Slots : getUserById(r)
    \/ \E r \in Slots : getCommentById(r)

SpecRead == Init /\ [][NextRead]_vars

(***************************************************************************)
(* C26: repeated lookups of one stored identifier by one client, with no   *)
(* write between them, are answered with the same status and the same      *)
(* data, as long as the general limiter passes them (and the persistence   *)
(* call answers): once the client has used up the window of the general    *)
(* limiter, the next lookup is answered 429.                               *)
(***************************************************************************)
\* two requests held together that look one identifier up, which the first
\* found stored
SameLookup(r1, r2) ==
    /\ r1 # r2
    /\ IsLookup(req[r1]) /\ req[r1].pc = "done"
    /\ req[r2].pc = "done"
    /\ req[r2].q = req[r1].q
    /\ req[r2].client = req[r1].client
    /\ req[r1].resp.status = 200
    /\ ~PersistenceFailed(req[r2])

SameAnswer(r1, r2) ==
    /\ req[r1].resp.status = req[r2].resp.status
    /\ req[r1].resp.rows = req[r2].resp.rows
    /\ req[r1].resp.success = req[r2].resp.success

C26Amended ==
    \A r1, r2 \in Slots :
        (SameLookup(r1, r2) /\ ~RateLimited(req[r2])) =>
            /\ SameAnswer(r1, r2)
            /\ {req[r1].resp.rows[1]} =
                  {row \in TableOf(req[r1]) : row.id = IdValue(Identifier(req[r1]))}

\* the same stored comment was looked up twice and returned twice
C26Witness ==
    \E r1, r2 \in Slots :
        /\ SameLookup(r1, r2)
        /\ req[r1].q.route = "GET /comments/:id"
        /\ req[r1].resp.status = 200
        /\ req[r2].resp.status = 200
        /\ Len(req[r1].resp.rows) = 1

C26Original ==
    \A r1, r2 \in Slots : SameLookup(r1, r2) => SameAnswer(r1, r2)

(***************************************************************************)
(* C27: GET /populate is not atomic across its creations: when the k-th    *)
(* User.create fails, the k-1 users the request created stay stored, no    *)
(* later candidate is created, nothing is rolled back or tried again, and  *)
(* the response is a 5xx that lists no user.                               *)
(***************************************************************************)
C27Partial ==
    \A r \in Slots :
        LET rq == req[r] IN
        Has(rq, <<"User.create", "fail">>) =>
            /\ rq.pc = "done"
            /\ rq.resp.status \in 500..599
            /\ rq.resp.success = "false"
            /\ rq.resp.rows = <<>>
            /\ Times(rq, <<"User.create", "fail">>) = 1
            /\ Times(rq, <<"axios.get", "ok">>) = 1
            /\ Times(rq, <<"User.create", "ok">>) = Len(rq.created)
            /\ Len(rq.created) < PopulateResults
            /\ \A i \in 1..Len(rq.created) :
                  /\ rq.created[i] \in users
                  /\ rq.created[i].email = Candidates[i].email

\* the failing creation leaves the table as it is, and no step ever takes a
\* user out of it
C27NoRollback ==
    /\ users \subseteq users'
    /\ \A r \in Slots :
          (req[r].pc = "creating" /\ Has(req'[r], <<"User.create", "fail">>)) =>
              users' = users /\ nextUserId' = nextUserId

C27Theorem == []C27Partial /\ [][C27NoRollback]_vars

\* the third creation failed: the first two users are all that is stored
C27Witness ==
    \E r \in Slots :
        /\ Has(req[r], <<"User.create", "fail">>)
        /\ Len(req[r].created) = 2
        /\ users = {req[r].created[1], req[r].created[2]}
        /\ req[r].resp.status = 500

(***************************************************************************)
(* The workload of two addresses: requests of every limiter class sent by  *)
(* two clients in any order, over two windows of the general and the       *)
(* write limiter.                                                          *)
(***************************************************************************)
ClassRequests ==
    { Request("GET /health", NoBody, <<>>),
      Request("POST /comment", TextBody(Hi), <<>>),
      Request("GET /populate", NoBody, <<>>) }

NextClients ==
    \/ \E r \in SeqSlots, c \in Clients, q \in ClassRequests :
          served < MaxBurst /\ Receive(r, c, q)
    \/ \E r \in SeqSlots : LimiterIncrement(r)
    \/ \E r \in SeqSlots : LimiterDecide(r)
    \/ \E r \in SeqSlots : validateComment(r)
    \/ \E r \in SeqSlots : health(r)
    \/ \E r \in SeqSlots : populate(r)
    \/ \E r \in SeqSlots : populateFetched(r)
    \/ \E r \in SeqSlots : populateCreate(r)
    \/ \E r \in SeqSlots : createComment(r)
    \/ Quiet /\ Tick(MaxTicks)

SpecClients == Init /\ [][NextClients]_vars

(***************************************************************************)
(* C28: the counters of different addresses and of different limiter       *)
(* classes are independent: a step of a request changes no counter but the *)
(* one of its own address at the limiter it is passing, a request of the   *)
(* general class alone changes no write or populate counter, and a limiter *)
(* passes or turns away a request by the count of the requests of that     *)
(* address in that limiter's window alone.                                 *)
(***************************************************************************)
\* the limiters of the classes other than the general one
ClassLimiters == Limiters \ {"apiLimiter"}

C28OwnCounter ==
    \A r \in Slots :
        (req'[r] # req[r] /\ now' = now) =>
            \A l \in Limiters : \A c \in Clients :
                store'[l][c] # store[l][c] =>
                    /\ c = req[r].client
                    /\ req[r].pc = "start"
                    /\ l = Current(req[r])
                    /\ l \in ClassLimiters =>
                          \E i \in 1..Len(ChainLimiters(req[r])) :
                              ChainLimiters(req[r])[i] = l

C28OwnDecision ==
    \A r \in Slots : \A l \in Limiters :
        (Has(req[r], <<l, "pass">>) \/ RejectedBy(req[r], l)) =>
            (RejectedBy(req[r], l) <=> req[r].ordinal[l] > max(l))

C28Independent == []C28OwnDecision /\ [][C28OwnCounter]_vars

\* B is turned away by the write limiter in a window in which A has sent
\* one write only, which passed
C28Witness ==
    \E r \in Slots :
        /\ req[r].client = "B"
        /\ RejectedBy(req[r], "writeLimiter")
        /\ window["writeLimiter"]["A"].n = 1
        /\ window["writeLimiter"]["A"].passed = 1
        /\ window["writeLimiter"]["A"].start = window["writeLimiter"]["B"].start

(***************************************************************************)
(* The workload of concurrent deletions: a comment is created and deleted  *)
(* by requests of two addresses in flight together on two connections.     *)
(***************************************************************************)
MaxRaceRequests == 3

RaceRequests ==
    { Request("POST /comment", TextBody(Hi), <<>>),
      Request("DELETE /comments/:id", NoBody, <<"1">>) }

NextRace ==
    \/ \E r \in Slots, c \in Clients, q \in RaceRequests :
          served < MaxRaceRequests /\ Receive(r, c, q)
    \/ \E r \in Slots : LimiterIncrement(r)
    \/ \E r \in Slots : LimiterDecide(r)
    \/ \E r \in Slots : validateComment(r)
    \/ \E r \in Slots : validateCommentId(r)
    \/ \E r \in Slots : createComment(r)
    \/ \E r \in Slots : deleteComment(r)
    \/ \E r \in Slots : deleteCommentDestroy(r)

SpecRace == Init /\ [][NextRace]_vars

(***************************************************************************)
(* C29: of the concurrent DELETE /comments/:id requests for one stored     *)
(* comment at most one is answered with the success confirmation, and a    *)
(* request reports success only if its own destroy removed the record.     *)
(* Two requests that both looked the comment up before either destroyed    *)
(* it are both answered with success.                                      *)
(***************************************************************************)
C29Original ==
    /\ \A r1, r2 \in Slots :
          (/\ r1 # r2
           /\ IsDelete(req[r1]) /\ IsDelete(req[r2])
           /\ req[r1].intArg = req[r2].intArg
           /\ req[r1].resp.success = "true") =>
              req[r2].resp.success # "true"

(***************************************************************************)
(* The workload of the frame: requests of every kind, writes and reads,    *)
(* valid and invalid, one after the other until the write limiter turns    *)
(* some away.                                                              *)
(***************************************************************************)
FrameRequests ==
    { Request("POST /comment", TextBody(Hi), <<>>),
      Request("POST /comment", TextBody(<<" ">>), <<>>),
      Request("DELETE /comments/:id", NoBody, <<"1">>),
      Request("DELETE /comments/:id", NoBody, <<"0">>),
      Request("GET /populate", NoBody, <<>>),
      Request("GET /health", NoBody, <<>>),
      Request("GET /comments", NoBody, <<>>),
      Request("GET /comments/:id", NoBody, <<"2">>),
      Request("GET /users", NoBody, <<>>),
      Request("POST /user", JsonBody(Undefined, Num(1)), <<>>),
      Request("POST /query", NoBody, <<>>),
      Request("GET /nope", NoBody, <<>>) }

NextFrame ==
    \/ \E r \in SeqSlots, q \in FrameRequests :
          served < MaxBurst /\ Receive(r, "A", q)
    \/ \E r \in SeqSlots : LimiterIncrement(r)
    \/ \E r \in SeqSlots : LimiterDecide(r)
    \/ \E r \in SeqSlots : validateUserId(r)
    \/ \E r \in SeqSlots : validateComment(r)
    \/ \E r \in SeqSlots : validateCommentId(r)
    \/ \E r \in SeqSlots : health(r)
    \/ \E r \in SeqSlots : query(r)
    \/ \E r \in SeqSlots : notFound(r)
    \/ \E r \in SeqSlots : populate(r)
    \/ \E r \in SeqSlots : populateFetched(r)
    \/ \E r \in SeqSlots : populateCreate(r)
    \/ \E r \in SeqSlots : getUserIds(r)
    \/ \E r \in SeqSlots : getUserById(r)
    \/ \E r \in SeqSlots : createComment(r)
    \/ \E r \in SeqSlots : getAllComments(r)
    \/ \E r \in SeqSlots : getCommentById(r)
    \/ \E r \in SeqSlots : deleteComment(r)
    \/ \E r \in SeqSlots : deleteCommentDestroy(r)

SpecFrame == Init /\ [][NextFrame]_vars

(***************************************************************************)
(* C30: the stored users and comments change only through a POST /comment  *)
(* answered 201, a DELETE /comments/:id answered with success, or a GET    *)
(* /populate that passed its limiters; every other request, and every      *)
(* request answered 400, 404 or 429, leaves the store as it was.           *)
(***************************************************************************)
Writers == {"POST /comment", "DELETE /comments/:id", "GET /populate"}

PassedLimiters(rq) ==
    \A i \in 1..Len(ChainLimiters(rq)) : Has(rq, <<ChainLimiters(rq)[i], "pass">>)

\* the request of slot r takes the step, and is one of the three kinds
C30Through(r) ==
    /\ req[r].pc \notin {"idle", "done"}
    /\ req'[r] # req[r]
    /\ req'[r].q = req[r].q
    /\ \/ /\ req[r].q.route = "POST /comment"
          /\ req'[r].pc = "done"
          /\ req'[r].resp.status = 201
          /\ users' = users
          /\ comments \subseteq comments'
       \/ /\ IsDelete(req[r])
          /\ req'[r].pc = "done"
          /\ req'[r].resp.success = "true"
          /\ users' = users
          /\ comments' \subseteq comments
       \/ /\ IsPopulate(req[r])
          /\ PassedLimiters(req[r])
          /\ comments' = comments
          /\ users \subseteq users'

C30Step ==
    (comments' # comments \/ users' # users) => \E r \in Slots : C30Through(r)

\* what a request has written is on its trace
C30Traced ==
    \A r \in Slots :
        LET wrote == \/ Has(req'[r], <<"Comment.create", "ok">>)
                     \/ Has(req'[r], <<"comment.destroy", "ok">>)
                     \/ Has(req'[r], <<"User.create", "ok">>)
        IN  (C30Through(r) /\ (comments' # comments \/ users' # users)) => wrote

Wrote(rq) ==
    \/ Has(rq, <<"Comment.create", "ok">>)
    \/ Has(rq, <<"comment.destroy", "ok">>)
    \/ Has(rq, <<"User.create", "ok">>)

C30Others ==
    \A r \in Slots :
        (\/ req[r].q.route \notin Writers
         \/ req[r].pc = "done" /\ req[r].resp.status \in {400, 404, 429}) =>
            ~Wrote(req[r])

C30Frame == []C30Others /\ [][C30Step /\ C30Traced]_vars

\* a comment and users are stored, and a write is turned away with 429
C30Witness ==
    \E r \in Slots :
        /\ req[r].pc = "done"
        /\ req[r].q.route \in Writers
        /\ req[r].resp.status = 429
        /\ comments # {}
        /\ users # {}
=============================================================================
